---- MODULE Spec2Model ----
(***************************************************************************)
(* Coordination state engine of agent-orchestration: the agents, locks and *)
(* tasks tables of the shared SQLite store (src/src/database.ts) and the   *)
(* tool handlers that server processes run against it (src/src/tools).    *)
(*                                                                         *)
(* Every server process is single-threaded and better-sqlite3 is           *)
(* synchronous, so inside one process a handler runs to completion.        *)
(* Several processes share the store; each db statement is its own         *)
(* transaction, so other processes interleave between the db calls of a    *)
(* handler.  A handler is therefore a short sequence of steps, one per db  *)
(* call whose interleaving matters (lookup then insert, check then         *)
(* acquire, read then write), tracked by pc.                               *)
(*                                                                         *)
(* Timestamps are ISO-8601 strings of fixed width, compared as strings by  *)
(* SQLite; that order is the order of the instants, so they are integers   *)
(* here (one unit = one second, NullTime = SQL NULL).                      *)
(* Identifiers are ULIDs: fresh and never reused, here "a1", "a2", ...     *)
(* for agents and "t1", "t2", ... for tasks in order of creation.          *)
(***************************************************************************)
EXTENDS Integers, Sequences, FiniteSets, TLC

\* ------------------------------------------------------------------ bounds
MaxTime == 3
MaxAgents == 3
MaxTasks == 2
MaxQueueTime == 1
MaxListTasks == 4
MaxTimeout == 2
MaxMemTime == 2
MaxTtl == 1
MaxSlack == 1
MaxEvents == 5

\* database.ts: agents without heartbeat for this long are marked offline
HEARTBEAT_TTL_SECONDS == 300
\* lock_acquire timeout_seconds default
DefaultLockTimeout == 300

\* ------------------------------------------------------------------ inputs
Procs == {"p1", "p2"}
Names == {"alice", "bob"}
Resources == {"r1", "r2"}
Roles == {"main", "sub"}
CapSets == {<<"code">>, <<"code", "review">>}
Timeouts == 0..MaxTimeout

NULL == "null"
NullTime == -1
NoRow == [id |-> NULL]

VARIABLES
    now,             \* the wall clock (Date.now()), in seconds
    agents,          \* agents table: sequence of rows in rowid order
    locks,           \* locks table: set of rows
    tasks,           \* tasks table: sequence of rows in rowid order
    memory,          \* memory table: set of rows
    events,          \* events table: its first MaxEvents rows, in rowid order
    agentSeq,        \* number of agent ids issued so far
    taskSeq,         \* number of task ids issued so far
    currentAgentId,  \* per process: tools/agent.ts currentAgentId
    pc,              \* per process: the handler in progress and its locals
    result           \* what the handler that finished last returned, and to whom

vars == <<now, agents, locks, tasks, memory, events, agentSeq, taskSeq, currentAgentId, pc, result>>

Idle == [op |-> "idle"]

\* ------------------------------------------------------------ table helpers
SeqToSet(s) == {s[i] : i \in 1..Len(s)}

AgentIds == {agents[i].id : i \in 1..Len(agents)}

AgentId(n) == "a" \o ToString(n)

TaskId(n) == "t" \o ToString(n)

\* SELECT * FROM agents WHERE id = ?
getAgent(agentId) ==
    LET hits == SelectSeq(agents, LAMBDA a : a.id = agentId)
    IN  IF Len(hits) = 0 THEN NoRow ELSE hits[1]

\* SELECT * FROM agents WHERE name = ? (.get(): the first matching row of the scan)
getAgentByNameIn(tbl, name) ==
    LET hits == SelectSeq(tbl, LAMBDA a : a.name = name)
    IN  IF Len(hits) = 0 THEN NoRow ELSE hits[1]

getAgentByName(name) == getAgentByNameIn(agents, name)

\* models.ts createAgent + database.ts createAgent: the row that is inserted
createAgentRow(id, name, role, capabilities, status, t) ==
    [id |-> id, name |-> name, role |-> role, status |-> status,
     capabilities |-> capabilities, registeredAt |-> t, lastHeartbeat |-> t]

\* INSERT INTO agents: id is the only key of the table, name carries no constraint
insertAgent(tbl, row) == Append(tbl, row)

\* a heartbeat that writes 'active' when no status is given
updateAgentHeartbeatInDefaultActive(tbl, agentId, status, t) ==
    [i \in 1..Len(tbl) |->
        IF tbl[i].id = agentId
        THEN [tbl[i] EXCEPT !.lastHeartbeat = t,
                            !.status = IF status = NULL THEN "active" ELSE status]
        ELSE tbl[i]]

\* UPDATE agents SET last_heartbeat = ?[, status = ?] WHERE id = ?
updateAgentHeartbeatIn(tbl, agentId, status, t) ==
    [i \in 1..Len(tbl) |->
        IF tbl[i].id = agentId
        THEN [tbl[i] EXCEPT !.lastHeartbeat = t,
                            !.status = IF status = NULL THEN @ ELSE status]
        ELSE tbl[i]]

\* a sweep that also takes the agents that are exactly ttl seconds old
StaleAgentNonStrict(a, cutoff) == a.status # "offline" /\ a.lastHeartbeat <= cutoff

\* cleanupStaleAgents: WHERE status != 'offline' AND last_heartbeat < cutoff
StaleAgent(a, cutoff) == a.status # "offline" /\ a.lastHeartbeat < cutoff

\* SELECT id FROM agents WHERE status != 'offline' AND last_heartbeat < ?
staleAgents(tbl, cutoff) == {tbl[i].id : i \in {j \in 1..Len(tbl) : StaleAgent(tbl[j], cutoff)}}

\* UPDATE agents SET status = 'offline' WHERE status != 'offline' AND last_heartbeat < ?
markStaleOffline(tbl, cutoff) ==
    [i \in 1..Len(tbl) |->
        IF StaleAgent(tbl[i], cutoff) THEN [tbl[i] EXCEPT !.status = "offline"] ELSE tbl[i]]

\* SELECT * FROM agents WHERE 1=1 [AND status = ?] [AND role = ?]; the rows are
\* kept as a set, the order of the listing is not modelled
listAgents(tbl, status, role) ==
    {tbl[i] : i \in {j \in 1..Len(tbl) : /\ (status = NULL \/ tbl[j].status = status)
                                         /\ (role = NULL \/ tbl[j].role = role)}}

\* ------------------------------------------------------------------- locks
Expired(l, t) == l.expiresAt # NullTime /\ l.expiresAt < t

\* the sweep left out
cleanupExpiredLocksSkipped(tbl, t) == tbl

\* DELETE FROM locks WHERE expires_at IS NOT NULL AND expires_at < now
cleanupExpiredLocks(tbl, t) == {l \in tbl : ~Expired(l, t)}

\* models.ts createLock: a falsy timeoutSeconds (undefined or 0) gives no expiry
createLock(resource, heldBy, timeoutSeconds, t) ==
    [resource |-> resource, heldBy |-> heldBy, acquiredAt |-> t,
     expiresAt |-> IF timeoutSeconds = 0 THEN NullTime ELSE t + timeoutSeconds]

\* the locks table without its UNIQUE constraint
UniqueViolationNever(tbl, row) == FALSE

\* resource TEXT NOT NULL UNIQUE
UniqueViolation(tbl, row) == \E l \in tbl : l.resource = row.resource

\* FOREIGN KEY (held_by) REFERENCES agents(id), pragma foreign_keys = ON
LockForeignKeyViolation(row) == row.heldBy \notin AgentIds

\* SELECT * FROM locks WHERE resource = ?
lockRow(tbl, resource) ==
    IF \E l \in tbl : l.resource = resource
    THEN CHOOSE l \in tbl : l.resource = resource
    ELSE NoRow

\* the delete without its held_by condition
releaseLockAnyHolder(tbl, resource, agentId) == {l \in tbl : l.resource # resource}

\* DELETE FROM locks WHERE resource = ? AND held_by = ?
releaseLock(tbl, resource, agentId) ==
    {l \in tbl : ~(l.resource = resource /\ l.heldBy = agentId)}

\* a bulk release that stops after the first resource
releaseAgentLocksFirstOnly(tbl, agentId) ==
    {l \in tbl : l.heldBy # agentId \/ l.resource # "r1"}

\* DELETE FROM locks WHERE held_by = ?
releaseAgentLocks(tbl, agentId) == {l \in tbl : l.heldBy # agentId}

\* ------------------------------------------------------------------ events
\* models.ts createEvent: the ulid and the details are left out
createEvent(eventType, agentId, resourceId, t) ==
    [eventType |-> eventType, agentId |-> agentId, resourceId |-> resourceId,
     timestamp |-> t]

\* a log whose insert replaces the row written last
logEventOverwriting(log, eventType, agentId, resourceId, t) ==
    IF Len(log) >= MaxEvents THEN log
    ELSE IF Len(log) = 0 THEN <<createEvent(eventType, agentId, resourceId, t)>>
    ELSE [log EXCEPT ![Len(log)] = createEvent(eventType, agentId, resourceId, t)]

\* logEvent: INSERT INTO events; the table has no foreign key. Only the first
\* MaxEvents rows of the table are kept in the state: nothing reads the table
\* but listEvents, so rows beyond them change no handler's behaviour
logEvent(log, eventType, agentId, resourceId, t) ==
    IF Len(log) >= MaxEvents THEN log
    ELSE Append(log, createEvent(eventType, agentId, resourceId, t))

\* the id of an agent of an earlier session, unregistered since
FormerAgentId == "a0"

\* the events of that earlier session, which fill the rows that are kept: the
\* agent registered, took and released a lock a number of times and unregistered
EarlierEvents ==
    <<createEvent("agent_registered", FormerAgentId, FormerAgentId, 0)>>
    \o [i \in 1..(2 * MaxEvents) |->
          createEvent(IF i % 2 = 1 THEN "lock_acquired" ELSE "lock_released",
                      FormerAgentId, "r1", 0)]
    \o <<createEvent("agent_unregistered", FormerAgentId, FormerAgentId, 0)>>

\* ------------------------------------------------------------------ memory
\* ttlSeconds null or undefined
NullTtl == NullTime

\* the keys in the order of ORDER BY key
KeysInOrder == <<"k1", "k2">>

Keys == SeqToSet(KeysInOrder)

Namespaces == {"default", "context"}

Values == {"v1", "v2"}

ExpiredEntry(e, t) == e.expiresAt # NullTime /\ e.expiresAt < t

\* DELETE FROM memory WHERE expires_at IS NOT NULL AND expires_at < now
cleanupExpiredMemory(tbl, t) == {e \in tbl : ~ExpiredEntry(e, t)}

\* models.ts createMemoryEntry: a falsy ttlSeconds (null, undefined or 0) gives
\* no expiry; ttlSeconds itself is stored as given
createMemoryEntry(key, value, namespace, createdBy, ttlSeconds, t) ==
    [key |-> key, value |-> value, namespace |-> namespace, createdBy |-> createdBy,
     ttlSeconds |-> ttlSeconds, createdAt |-> t, updatedAt |-> t,
     expiresAt |-> IF ttlSeconds = NullTtl \/ ttlSeconds = 0
                   THEN NullTime ELSE t + ttlSeconds]

\* SELECT * FROM memory WHERE namespace = ? AND key = ?
memoryRow(tbl, key, namespace) ==
    IF \E e \in tbl : e.namespace = namespace /\ e.key = key
    THEN CHOOSE e \in tbl : e.namespace = namespace /\ e.key = key
    ELSE NoRow

\* FOREIGN KEY (created_by) REFERENCES agents(id), checked for the row inserted
MemoryForeignKeyViolation(tbl, entry) ==
    /\ memoryRow(tbl, entry.key, entry.namespace) = NoRow
    /\ entry.createdBy # NULL
    /\ entry.createdBy \notin AgentIds

\* the upsert replacing only value and updated_at of the row in conflict
upsertMemoryKeepExpiry(tbl, entry) ==
    LET old == memoryRow(tbl, entry.key, entry.namespace)
    IN  IF old = NoRow
        THEN tbl \cup {entry}
        ELSE (tbl \ {old}) \cup
             {[old EXCEPT !.value = entry.value, !.updatedAt = entry.updatedAt]}

\* INSERT ... ON CONFLICT(namespace, key) DO UPDATE SET value, updated_at,
\* ttl_seconds, expires_at = excluded.*
upsertMemory(tbl, entry) ==
    LET old == memoryRow(tbl, entry.key, entry.namespace)
    IN  IF old = NoRow
        THEN tbl \cup {entry}
        ELSE (tbl \ {old}) \cup
             {[old EXCEPT !.value = entry.value, !.updatedAt = entry.updatedAt,
                          !.ttlSeconds = entry.ttlSeconds,
                          !.expiresAt = entry.expiresAt]}

\* SELECT * FROM memory WHERE namespace = ? ORDER BY key
listMemoryRows(tbl, namespace) ==
    LET present == SelectSeq(KeysInOrder,
                             LAMBDA k : memoryRow(tbl, k, namespace) # NoRow)
    IN  [i \in 1..Len(present) |-> memoryRow(tbl, present[i], namespace)]

\* ------------------------------------------------------------------- tasks
TerminalStatuses == {"completed", "failed", "cancelled"}
Priorities == {"low", "normal", "high", "urgent"}
Statuses == {"pending", "assigned", "in_progress"} \cup TerminalStatuses
NoMetadata == <<>>

\* models.ts createTask: the row that database.ts createTask inserts
createTaskRow(id, title, priority, createdBy, assignedTo, dependencies, status, startedAt, t) ==
    [id |-> id, title |-> title, status |-> status, priority |-> priority,
     createdBy |-> createdBy, assignedTo |-> assignedTo, dependencies |-> dependencies,
     metadata |-> NoMetadata, output |-> NULL,
     createdAt |-> t, updatedAt |-> t, startedAt |-> startedAt, completedAt |-> NullTime]

\* FOREIGN KEY (created_by) / (assigned_to) REFERENCES agents(id): NULL passes
TaskForeignKeyViolation(agentId) == agentId # NULL /\ agentId \notin AgentIds

\* SELECT * FROM tasks WHERE id = ?
getTask(taskId) ==
    LET hits == SelectSeq(tasks, LAMBDA t : t.id = taskId)
    IN  IF Len(hits) = 0 THEN NoRow ELSE hits[1]

\* the CASE with the ranks of 'high' and 'normal' exchanged
PriorityRankSwapped(priority) ==
    CASE priority = "urgent" -> 1
      [] priority = "normal" -> 2
      [] priority = "high" -> 3
      [] OTHER -> 4

\* CASE priority WHEN 'urgent' THEN 1 WHEN 'high' THEN 2 WHEN 'normal' THEN 3 ELSE 4 END
PriorityRank(priority) ==
    CASE priority = "urgent" -> 1
      [] priority = "high" -> 2
      [] priority = "normal" -> 3
      [] OTHER -> 4

\* ORDER BY <rank>, created_at ASC: row a may come before row b
OrderedBefore(a, b) ==
    \/ PriorityRank(a.priority) < PriorityRank(b.priority)
    \/ /\ PriorityRank(a.priority) = PriorityRank(b.priority)
       /\ a.createdAt <= b.createdAt

\* every order in which the statement can return the rows: sorted by the ORDER BY
\* keys, rows with equal keys in any order (SQLite leaves their order open)
OrderedResults(rows) ==
    LET n == Cardinality(rows)
    IN  {s \in [1..n -> rows] :
            /\ \A i \in 1..n : \A j \in 1..n : i # j => s[i] # s[j]
            /\ \A i \in 1..n : \A j \in 1..n : i < j => OrderedBefore(s[i], s[j])}

\* listTasks(filters): a filter that is absent (NULL here) is not applied
listTasks(status, assignedTo, createdBy) ==
    OrderedResults({t \in SeqToSet(tasks) :
        /\ status = NULL \/ t.status = status
        /\ assignedTo = NULL \/ t.assignedTo = assignedTo
        /\ createdBy = NULL \/ t.createdBy = createdBy})

\* the check failing open: a dependency that names no task counts as met
checkDependenciesMetFailOpen(taskId) ==
    LET task == getTask(taskId)
    IN  IF task = NoRow \/ Len(task.dependencies) = 0
        THEN TRUE
        ELSE \A i \in 1..Len(task.dependencies) :
                LET depTask == getTask(task.dependencies[i])
                IN  depTask = NoRow \/ depTask.status = "completed"

\* the check taking any dependency that exists as met
checkDependenciesMetAnyStatus(taskId) ==
    LET task == getTask(taskId)
    IN  IF task = NoRow \/ Len(task.dependencies) = 0
        THEN TRUE
        ELSE \A i \in 1..Len(task.dependencies) : getTask(task.dependencies[i]) # NoRow

\* the check taking a dependency in any terminal status as met
checkDependenciesMetTerminal(taskId) ==
    LET task == getTask(taskId)
    IN  IF task = NoRow \/ Len(task.dependencies) = 0
        THEN TRUE
        ELSE \A i \in 1..Len(task.dependencies) :
                LET depTask == getTask(task.dependencies[i])
                IN  depTask # NoRow /\ depTask.status \in TerminalStatuses

\* checkDependenciesMet(taskId)
checkDependenciesMet(taskId) ==
    LET task == getTask(taskId)
    IN  IF task = NoRow \/ Len(task.dependencies) = 0
        THEN TRUE
        ELSE \A i \in 1..Len(task.dependencies) :
                LET depTask == getTask(task.dependencies[i])
                IN  depTask # NoRow /\ depTask.status = "completed"

\* the WHERE clause without its assigned_to condition
NextAvailableRowsAnyAssignee(agentId) ==
    {t \in SeqToSet(tasks) : t.status = "pending" \/ t.status = "assigned"}

\* the rows getNextAvailableTask selects:
\* WHERE status = 'pending' OR (status = 'assigned' AND assigned_to = ?)
NextAvailableRows(agentId) ==
    {t \in SeqToSet(tasks) :
        t.status = "pending" \/ (t.status = "assigned" /\ t.assignedTo = agentId)}

\* the first row of an ordered result whose dependencies are met, NoRow if none
FirstWithDependenciesMet(rows) ==
    LET met == {i \in 1..Len(rows) : checkDependenciesMet(rows[i].id)}
    IN  IF met = {} THEN NoRow
        ELSE rows[CHOOSE i \in met : \A j \in met : i <= j]

\* getNextAvailableTask(agentId): what it can return
getNextAvailableTask(agentId) ==
    {FirstWithDependenciesMet(rows) : rows \in OrderedResults(NextAvailableRows(agentId))}

\* every update logged as a generic update
TaskEventTypeGeneric(status) == "task_updated"

\* updateTask's choice of the event type by updates.status
TaskEventType(status) ==
    CASE status = "assigned" -> "task_assigned"
      [] status = "in_progress" -> "task_claimed"
      [] status = "completed" -> "task_completed"
      [] OTHER -> "task_updated"

\* an update whose metadata clause is the argument alone
UpdateClausesReplacing(task, status, assignedTo, output, metadata, t) ==
    [status |-> status,
     updatedAt |-> t,
     startedAt |-> IF status = "in_progress" /\ task.startedAt = NullTime
                   THEN t ELSE NullTime,
     completedAt |-> IF ~(status = "in_progress" /\ task.startedAt = NullTime)
                        /\ status \in TerminalStatuses
                     THEN t ELSE NullTime,
     assignedTo |-> assignedTo,
     output |-> output,
     metadata |-> metadata,
     eventType |-> TaskEventType(status),
     eventAgentId |-> IF assignedTo # NULL THEN assignedTo ELSE task.assignedTo]

\* updateTask up to its UPDATE: the SET clauses computed from the row just read
\* (updates.status NULL = not given, likewise assignedTo and output)
UpdateClauses(task, status, assignedTo, output, metadata, t) ==
    [status |-> status,
     updatedAt |-> t,
     startedAt |-> IF status = "in_progress" /\ task.startedAt = NullTime
                   THEN t ELSE NullTime,
     completedAt |-> IF ~(status = "in_progress" /\ task.startedAt = NullTime)
                        /\ status \in TerminalStatuses
                     THEN t ELSE NullTime,
     assignedTo |-> assignedTo,
     output |-> output,
     metadata |-> IF metadata = NoMetadata THEN NoMetadata ELSE metadata @@ task.metadata,
     eventType |-> TaskEventType(status),
     eventAgentId |-> IF assignedTo # NULL THEN assignedTo ELSE task.assignedTo]

\* an UPDATE that writes completed_at on every call, NULL when the destination
\* status is not terminal
applyUpdateNulling(tbl, taskId, set) ==
    [i \in 1..Len(tbl) |->
        IF tbl[i].id # taskId THEN tbl[i]
        ELSE [tbl[i] EXCEPT
                !.updatedAt = set.updatedAt,
                !.status = IF set.status = NULL THEN @ ELSE set.status,
                !.startedAt = IF set.startedAt = NullTime THEN @ ELSE set.startedAt,
                !.completedAt = set.completedAt,
                !.assignedTo = IF set.assignedTo = NULL THEN @ ELSE set.assignedTo,
                !.output = IF set.output = NULL THEN @ ELSE set.output,
                !.metadata = IF set.metadata = NoMetadata THEN @ ELSE set.metadata]]

\* UPDATE tasks SET <clauses> WHERE id = ?
applyUpdate(tbl, taskId, set) ==
    [i \in 1..Len(tbl) |->
        IF tbl[i].id # taskId THEN tbl[i]
        ELSE [tbl[i] EXCEPT
                !.updatedAt = set.updatedAt,
                !.status = IF set.status = NULL THEN @ ELSE set.status,
                !.startedAt = IF set.startedAt = NullTime THEN @ ELSE set.startedAt,
                !.completedAt = IF set.completedAt = NullTime THEN @ ELSE set.completedAt,
                !.assignedTo = IF set.assignedTo = NULL THEN @ ELSE set.assignedTo,
                !.output = IF set.output = NULL THEN @ ELSE set.output,
                !.metadata = IF set.metadata = NoMetadata THEN @ ELSE set.metadata]]

\* ------------------------------------------------------------------ clock
\* the clock advances between db calls
Tick(limit) ==
    /\ now < limit
    /\ now' = now + 1
    /\ UNCHANGED <<agents, locks, tasks, agentSeq, taskSeq, currentAgentId, pc, result, memory, events>>

\* a longer pause between db calls
Elapse(d, limit) ==
    /\ now + d <= limit
    /\ now' = now + d
    /\ UNCHANGED <<agents, locks, tasks, agentSeq, taskSeq, currentAgentId, pc, result, memory, events>>

\* ------------------------------------------------- tools/agent.ts handlers
Finish(p, r) ==
    /\ pc' = [pc EXCEPT ![p] = Idle]
    /\ result' = [proc |-> p] @@ r

\* handlers that have looked a name up and are about to insert a new agent
PendingInserts ==
    Cardinality({q \in Procs : pc[q].op \in {"agent_register", "bootstrap"}
                               /\ pc[q].step = "insert"})

\* agent_register, first db call: getAgentByName(name); an existing row is a
\* reconnect (setCurrentAgent before the heartbeat), none leads to createAgent
AgentRegisterLookup(p, name, role, capabilities) ==
    /\ pc[p] = Idle
    /\ LET existing == getAgentByName(name)
       IN  IF existing # NoRow
           THEN /\ currentAgentId' = [currentAgentId EXCEPT ![p] = existing.id]
                /\ pc' = [pc EXCEPT ![p] = [op |-> "agent_register", step |-> "heartbeat",
                                            id |-> existing.id, name |-> name]]
           ELSE /\ agentSeq + PendingInserts < MaxAgents
                /\ pc' = [pc EXCEPT ![p] = [op |-> "agent_register", step |-> "insert",
                                            name |-> name, role |-> role,
                                            capabilities |-> capabilities]]
                /\ UNCHANGED currentAgentId
    /\ UNCHANGED <<now, agents, locks, tasks, agentSeq, taskSeq, result, memory, events>>

\* agent_register, reconnect: updateAgentHeartbeat(existing.id, ACTIVE)
AgentRegisterHeartbeat(p) ==
    /\ pc[p].op = "agent_register" /\ pc[p].step = "heartbeat"
    /\ agents' = updateAgentHeartbeatIn(agents, pc[p].id, "active", now)
    /\ Finish(p, [op |-> "agent_register", out |-> "reconnected",
                  id |-> pc[p].id, name |-> pc[p].name])
    /\ UNCHANGED <<now, locks, tasks, agentSeq, taskSeq, currentAgentId, memory, events>>

\* agent_register, new agent: createAgent({name, role, capabilities, ACTIVE})
AgentRegisterInsert(p) ==
    /\ pc[p].op = "agent_register" /\ pc[p].step = "insert"
    /\ LET id == AgentId(agentSeq + 1)
       IN  /\ agents' = insertAgent(agents, createAgentRow(id, pc[p].name, pc[p].role,
                                        pc[p].capabilities, "active", now))
           /\ agentSeq' = agentSeq + 1
           /\ currentAgentId' = [currentAgentId EXCEPT ![p] = id]
           /\ events' = logEvent(events, "agent_registered", id, id, now)
           /\ Finish(p, [op |-> "agent_register", out |-> "registered",
                         id |-> id, name |-> pc[p].name])
    /\ UNCHANGED <<now, locks, tasks, taskSeq, memory>>

\* agent_heartbeat: updateAgentHeartbeat(currentAgentId, status), true iff the
\* UPDATE changed a row; status is NULL when the argument is left out
AgentHeartbeat(p, status) ==
    /\ pc[p] = Idle
    /\ IF currentAgentId[p] = NULL
       THEN /\ Finish(p, [op |-> "agent_heartbeat", out |-> "not_registered"])
            /\ UNCHANGED agents
       ELSE /\ agents' = updateAgentHeartbeatIn(agents, currentAgentId[p], status, now)
            /\ Finish(p, [op |-> "agent_heartbeat",
                          out |-> IF currentAgentId[p] \in AgentIds
                                  THEN "recorded" ELSE "not_found",
                          id |-> currentAgentId[p], status |-> status])
    /\ UNCHANGED <<now, locks, tasks, agentSeq, taskSeq, currentAgentId, memory, events>>

\* the references without locks.held_by
AgentReferencedNoLocks(agentId) ==
    \/ \E i \in 1..Len(tasks) : tasks[i].createdBy = agentId \/ tasks[i].assignedTo = agentId
    \/ \E e \in memory : e.createdBy = agentId

\* agent_list -> cleanupStaleAgents, first statement: the cutoff is computed and
\* the stale agents are selected; with none the sweep returns 0 at once
AgentListSweep(p, status, role) ==
    /\ pc[p] = Idle
    /\ LET cutoff == now - HEARTBEAT_TTL_SECONDS
           stale == staleAgents(agents, cutoff)
       IN  pc' = [pc EXCEPT ![p] =
                    [op |-> "agent_list", step |-> IF stale = {} THEN "list" ELSE "release",
                     cutoff |-> cutoff, stale |-> stale, released |-> 0, changes |-> 0,
                     status |-> status, role |-> role]]
    /\ UNCHANGED <<now, agents, locks, tasks, agentSeq, taskSeq, currentAgentId, result, memory, events>>

\* cleanupStaleAgents, the loop: releaseAgentLocks(agent.id) for one more of the
\* selected agents
AgentListRelease(p) ==
    /\ pc[p].op = "agent_list" /\ pc[p].step = "release"
    /\ \E id \in pc[p].stale :
         /\ locks' = releaseAgentLocks(locks, id)
         /\ pc' = [pc EXCEPT ![p].stale = @ \ {id},
                             ![p].released = @ + Cardinality(locks \ locks'),
                             ![p].step = IF pc[p].stale = {id} THEN "update" ELSE "release"]
    /\ UNCHANGED <<now, agents, tasks, agentSeq, taskSeq, currentAgentId, result, memory, events>>

\* cleanupStaleAgents, last statement: the UPDATE with the cutoff computed at
\* the start; its changes are the return value
AgentListUpdate(p) ==
    /\ pc[p].op = "agent_list" /\ pc[p].step = "update"
    /\ agents' = markStaleOffline(agents, pc[p].cutoff)
    /\ pc' = [pc EXCEPT ![p].step = "list",
                        ![p].changes = Cardinality(staleAgents(agents, pc[p].cutoff))]
    /\ UNCHANGED <<now, locks, tasks, agentSeq, taskSeq, currentAgentId, result, memory, events>>

\* agent_list, after the sweep: listAgents({status, role})
AgentListRead(p) ==
    /\ pc[p].op = "agent_list" /\ pc[p].step = "list"
    /\ Finish(p, [op |-> "agent_list", swept |-> pc[p].changes, released |-> pc[p].released,
                  agents |-> listAgents(agents, pc[p].status, pc[p].role)])
    /\ UNCHANGED <<now, agents, locks, tasks, agentSeq, taskSeq, currentAgentId, memory, events>>

\* rows of other tables that reference the agent (FOREIGN KEY ... REFERENCES agents(id))
AgentReferenced(agentId) ==
    \/ \E l \in locks : l.heldBy = agentId
    \/ \E i \in 1..Len(tasks) : tasks[i].createdBy = agentId \/ tasks[i].assignedTo = agentId
    \/ \E e \in memory : e.createdBy = agentId

\* agent_unregister -> deleteAgent, first statement: releaseAgentLocks(agentId)
AgentUnregisterRelease(p) ==
    /\ pc[p] = Idle
    /\ IF currentAgentId[p] = NULL
       THEN /\ Finish(p, [op |-> "agent_unregister", out |-> "not_registered"])
            /\ UNCHANGED locks
       ELSE /\ locks' = releaseAgentLocks(locks, currentAgentId[p])
            /\ pc' = [pc EXCEPT ![p] = [op |-> "agent_unregister", step |-> "delete",
                                        id |-> currentAgentId[p],
                                        released |-> Cardinality(locks \ locks')]]
            /\ UNCHANGED result
    /\ UNCHANGED <<now, agents, tasks, agentSeq, taskSeq, currentAgentId, memory, events>>

\* deleteAgent, second statement: DELETE FROM agents WHERE id = ?; the delete of a
\* row that tasks or locks still reference fails (foreign_keys = ON) and throws
AgentUnregisterDelete(p) ==
    /\ pc[p].op = "agent_unregister" /\ pc[p].step = "delete"
    /\ LET id == pc[p].id
           released == pc[p].released
       IN  IF id \in AgentIds /\ AgentReferenced(id)
           THEN /\ Finish(p, [op |-> "agent_unregister", out |-> "error_foreign_key",
                              id |-> id, released |-> released])
                /\ UNCHANGED <<agents, currentAgentId, events>>
           ELSE IF id \in AgentIds
           THEN /\ agents' = SelectSeq(agents, LAMBDA a : a.id # id)
                /\ events' = logEvent(events, "agent_unregistered", id, id, now)
                /\ currentAgentId' = [currentAgentId EXCEPT ![p] = NULL]
                /\ Finish(p, [op |-> "agent_unregister", out |-> "unregistered",
                              id |-> id, released |-> released])
           ELSE /\ Finish(p, [op |-> "agent_unregister", out |-> "could_not_unregister",
                              id |-> id, released |-> released])
                /\ UNCHANGED <<agents, currentAgentId, events>>
    /\ UNCHANGED <<now, locks, tasks, agentSeq, taskSeq, memory>>

\* a lock_acquire that renews the caller's own lock instead of answering that
\* it is already held
LockAcquireCheckRenewing(p, resource, timeoutSeconds) ==
    /\ pc[p] = Idle
    /\ IF currentAgentId[p] = NULL
       THEN /\ Finish(p, [op |-> "lock_acquire", out |-> "not_registered",
                          resource |-> resource])
            /\ UNCHANGED <<locks, events>>
       ELSE LET swept == cleanupExpiredLocks(locks, now)
                existing == lockRow(swept, resource)
            IN  IF existing # NoRow /\ existing.heldBy = currentAgentId[p]
                THEN /\ locks' = (swept \ {existing})
                                   \cup {createLock(resource, currentAgentId[p],
                                                    timeoutSeconds, now + 1)}
                     /\ events' = logEvent(events, "lock_acquired", currentAgentId[p],
                                           resource, now)
                     /\ Finish(p, [op |-> "lock_acquire", out |-> "already_held",
                                   resource |-> resource, holder |-> existing.heldBy])
                ELSE /\ locks' = swept
                     /\ UNCHANGED events
                     /\ IF existing # NoRow
                        THEN Finish(p, [op |-> "lock_acquire", out |-> "denied",
                                        resource |-> resource, holder |-> existing.heldBy])
                        ELSE /\ pc' = [pc EXCEPT ![p] =
                                         [op |-> "lock_acquire", step |-> "acquire",
                                          agentId |-> currentAgentId[p],
                                          resource |-> resource,
                                          timeoutSeconds |-> timeoutSeconds]]
                             /\ UNCHANGED result
    /\ UNCHANGED <<now, agents, tasks, agentSeq, taskSeq, currentAgentId, memory>>

\* ------------------------------------------ tools/coordination.ts handlers
\* lock_acquire up to its first db call: checkLock(resource) sweeps the expired
\* locks and reads the row of the resource
LockAcquireCheck(p, resource, timeoutSeconds) ==
    /\ pc[p] = Idle
    /\ IF currentAgentId[p] = NULL
       THEN /\ Finish(p, [op |-> "lock_acquire", out |-> "not_registered",
                          resource |-> resource])
            /\ UNCHANGED locks
       ELSE LET swept == cleanupExpiredLocks(locks, now)
                existing == lockRow(swept, resource)
            IN  /\ locks' = swept
                /\ IF existing # NoRow
                   THEN Finish(p, [op |-> "lock_acquire",
                                   out |-> IF existing.heldBy = currentAgentId[p]
                                           THEN "already_held" ELSE "denied",
                                   resource |-> resource, holder |-> existing.heldBy])
                   ELSE /\ pc' = [pc EXCEPT ![p] =
                                    [op |-> "lock_acquire", step |-> "acquire",
                                     agentId |-> currentAgentId[p], resource |-> resource,
                                     timeoutSeconds |-> timeoutSeconds]]
                        /\ UNCHANGED result
    /\ UNCHANGED <<now, agents, tasks, agentSeq, taskSeq, currentAgentId, memory, events>>

\* lock_acquire, second db call: acquireLock sweeps again and inserts; a UNIQUE
\* conflict returns null ("Failed to acquire lock."), any other error is rethrown
LockAcquireInsert(p) ==
    /\ pc[p].op = "lock_acquire" /\ pc[p].step = "acquire"
    /\ LET swept == cleanupExpiredLocks(locks, now)
           lock == createLock(pc[p].resource, pc[p].agentId, pc[p].timeoutSeconds, now)
       IN  IF UniqueViolation(swept, lock)
           THEN /\ locks' = swept
                /\ Finish(p, [op |-> "lock_acquire", out |-> "failed",
                              resource |-> pc[p].resource])
                /\ UNCHANGED events
           ELSE IF LockForeignKeyViolation(lock)
           THEN /\ locks' = swept
                /\ Finish(p, [op |-> "lock_acquire", out |-> "error_foreign_key",
                              resource |-> pc[p].resource])
                /\ UNCHANGED events
           ELSE /\ locks' = swept \cup {lock}
                /\ events' = logEvent(events, "lock_acquired", lock.heldBy, lock.resource, now)
                /\ Finish(p, [op |-> "lock_acquire", out |-> "acquired",
                              resource |-> pc[p].resource, lock |-> lock])
    /\ UNCHANGED <<now, agents, tasks, agentSeq, taskSeq, currentAgentId, memory>>

\* a lock_release that goes to the database without looking at the identity
LockReleaseUnchecked(p, resource) ==
    /\ pc[p] = Idle
    /\ locks' = releaseLock(locks, resource, currentAgentId[p])
    /\ events' = IF locks' # locks
                 THEN logEvent(events, "lock_released", currentAgentId[p], resource, now)
                 ELSE events
    /\ Finish(p, [op |-> "lock_release",
                  out |-> IF locks' # locks THEN "released" ELSE "not_released",
                  resource |-> resource, agentId |-> currentAgentId[p]])
    /\ UNCHANGED <<now, agents, tasks, agentSeq, taskSeq, currentAgentId, memory>>

\* lock_release: releaseLock(resource, agentId), true iff a row was deleted
LockRelease(p, resource) ==
    /\ pc[p] = Idle
    /\ IF currentAgentId[p] = NULL
       THEN /\ Finish(p, [op |-> "lock_release", out |-> "not_registered",
                          resource |-> resource])
            /\ UNCHANGED <<locks, events>>
       ELSE /\ locks' = releaseLock(locks, resource, currentAgentId[p])
            /\ events' = IF locks' # locks
                         THEN logEvent(events, "lock_released", currentAgentId[p],
                                       resource, now)
                         ELSE events
            /\ Finish(p, [op |-> "lock_release",
                          out |-> IF locks' # locks THEN "released" ELSE "not_released",
                          resource |-> resource, agentId |-> currentAgentId[p]])
    /\ UNCHANGED <<now, agents, tasks, agentSeq, taskSeq, currentAgentId, memory>>

\* lock_check: checkLock(resource), no identity needed
LockCheck(p, resource) ==
    /\ pc[p] = Idle
    /\ LET swept == cleanupExpiredLocks(locks, now)
           row == lockRow(swept, resource)
       IN  /\ locks' = swept
           /\ Finish(p, [op |-> "lock_check", resource |-> resource,
                         holder |-> IF row = NoRow THEN NULL ELSE row.heldBy])
    /\ UNCHANGED <<now, agents, tasks, agentSeq, taskSeq, currentAgentId, memory, events>>

\* getStats: SELECT COUNT(*) of each table
getStats ==
    [agents |-> Len(agents), tasks |-> Len(tasks), locks |-> Cardinality(locks),
     memory |-> Cardinality(memory)]

\* coordination_status: listAgents(), the agents whose status is active or busy,
\* listTasks of pending and of in_progress, getStats(); the handler runs no sweep
CoordinationStatus(p) ==
    /\ pc[p] = Idle
    /\ LET all == listAgents(agents, NULL, NULL)
           active == {a \in all : a.status \in {"active", "busy"}}
       IN  Finish(p, [op |-> "coordination_status", at |-> now,
                      active |-> Cardinality(active), total |-> Cardinality(all),
                      pending |-> Cardinality({i \in 1..Len(tasks) :
                                                 tasks[i].status = "pending"}),
                      inProgress |-> Cardinality({i \in 1..Len(tasks) :
                                                    tasks[i].status = "in_progress"}),
                      locks |-> getStats.locks, memory |-> getStats.memory])
    /\ UNCHANGED <<now, agents, locks, tasks, agentSeq, taskSeq, currentAgentId, memory, events>>

\* -------------------------------------------------- tools/task.ts handlers
TaskIds == {tasks[i].id : i \in 1..Len(tasks)}

\* a task id that names no task
MissingTaskId == TaskId(0)

\* task_create: createTask with createdBy = the current agent (or null)
TaskCreate(p, title, priority, assignedTo, dependencies) ==
    /\ pc[p] = Idle
    /\ IF TaskForeignKeyViolation(currentAgentId[p]) \/ TaskForeignKeyViolation(assignedTo)
       THEN /\ Finish(p, [op |-> "task_create", out |-> "error_foreign_key"])
            /\ UNCHANGED <<tasks, taskSeq, events>>
       ELSE LET id == TaskId(taskSeq + 1)
            IN  /\ tasks' = Append(tasks, createTaskRow(id, title, priority,
                                currentAgentId[p], assignedTo, dependencies,
                                "pending", NullTime, now))
                /\ taskSeq' = taskSeq + 1
                /\ events' = logEvent(events, "task_created", currentAgentId[p], id, now)
                /\ Finish(p, [op |-> "task_create", out |-> "created", taskId |-> id])
    /\ UNCHANGED <<now, agents, locks, agentSeq, currentAgentId, memory>>

\* task_claim up to the task it is about: getTask(task_id), or
\* getNextAvailableTask(agentId) when no id is given (taskId = NULL)
TaskClaimSelect(p, taskId) ==
    /\ pc[p] = Idle
    /\ IF currentAgentId[p] = NULL
       THEN Finish(p, [op |-> "task_claim", out |-> "not_registered"])
       ELSE IF taskId # NULL
       THEN IF getTask(taskId) = NoRow
            THEN Finish(p, [op |-> "task_claim", out |-> "not_found", taskId |-> taskId])
            ELSE /\ pc' = [pc EXCEPT ![p] = [op |-> "task_claim", step |-> "check",
                               agentId |-> currentAgentId[p], taskId |-> taskId,
                               byId |-> TRUE]]
                 /\ UNCHANGED result
       ELSE \E task \in getNextAvailableTask(currentAgentId[p]) :
               IF task = NoRow
               THEN Finish(p, [op |-> "task_claim", out |-> "no_available"])
               ELSE /\ pc' = [pc EXCEPT ![p] = [op |-> "task_claim", step |-> "check",
                                  agentId |-> currentAgentId[p], taskId |-> task.id,
                                  byId |-> FALSE]]
                    /\ UNCHANGED result
    /\ UNCHANGED <<now, agents, locks, tasks, agentSeq, taskSeq, currentAgentId, memory, events>>

\* task_claim: checkDependenciesMet(task.id), then updateTask's read of the row
TaskClaimCheck(p) ==
    /\ pc[p].op = "task_claim" /\ pc[p].step = "check"
    /\ IF ~checkDependenciesMet(pc[p].taskId)
       THEN Finish(p, [op |-> "task_claim", out |-> "dependencies_not_met",
                       taskId |-> pc[p].taskId])
       ELSE /\ pc' = [pc EXCEPT ![p] = [op |-> "task_claim", step |-> "write",
                          agentId |-> pc[p].agentId, taskId |-> pc[p].taskId,
                          set |-> UpdateClauses(getTask(pc[p].taskId), "in_progress",
                                                pc[p].agentId, NULL, NoMetadata, now)]]
            /\ UNCHANGED result
    /\ UNCHANGED <<now, agents, locks, tasks, agentSeq, taskSeq, currentAgentId, memory, events>>

\* task_update: getTask(task_id), then updateTask's read of the row
TaskUpdateRead(p, taskId, status, metadata, output) ==
    /\ pc[p] = Idle
    /\ IF getTask(taskId) = NoRow
       THEN Finish(p, [op |-> "task_update", out |-> "not_found", taskId |-> taskId])
       ELSE /\ pc' = [pc EXCEPT ![p] = [op |-> "task_update", step |-> "write",
                          agentId |-> currentAgentId[p], taskId |-> taskId,
                          set |-> UpdateClauses(getTask(taskId), status, NULL, output,
                                                metadata, now)]]
            /\ UNCHANGED result
    /\ UNCHANGED <<now, agents, locks, tasks, agentSeq, taskSeq, currentAgentId, memory, events>>

\* task_complete: getTask(task_id), then updateTask's read of the row
TaskCompleteRead(p, taskId, output) ==
    /\ pc[p] = Idle
    /\ IF getTask(taskId) = NoRow
       THEN Finish(p, [op |-> "task_complete", out |-> "not_found", taskId |-> taskId])
       ELSE /\ pc' = [pc EXCEPT ![p] = [op |-> "task_complete", step |-> "write",
                          agentId |-> currentAgentId[p], taskId |-> taskId,
                          set |-> UpdateClauses(getTask(taskId), "completed", NULL, output,
                                                NoMetadata, now)]]
            /\ UNCHANGED result
    /\ UNCHANGED <<now, agents, locks, tasks, agentSeq, taskSeq, currentAgentId, memory, events>>

\* updateTask's UPDATE statement and the logEvent that follows it, for task_claim,
\* task_update, task_complete and claim_todo;
\* an assigned_to that names no agent fails the foreign key and throws
UpdateTaskWrite(p) ==
    /\ pc[p].op \in {"task_claim", "task_update", "task_complete", "claim_todo"}
    /\ pc[p].step = "write"
    /\ IF TaskForeignKeyViolation(pc[p].set.assignedTo)
       THEN /\ Finish(p, [op |-> pc[p].op, out |-> "error_foreign_key",
                          taskId |-> pc[p].taskId])
            /\ UNCHANGED <<tasks, events>>
       ELSE /\ tasks' = applyUpdate(tasks, pc[p].taskId, pc[p].set)
            /\ events' = logEvent(events, pc[p].set.eventType, pc[p].set.eventAgentId,
                                  pc[p].taskId, now)
            /\ Finish(p, [op |-> pc[p].op, out |-> "updated", taskId |-> pc[p].taskId])
    /\ UNCHANGED <<now, agents, locks, agentSeq, taskSeq, currentAgentId, memory>>

\* task_list: listTasks({status, assignedTo}), mine replacing assigned_to
TaskList(p, status, assignedTo, mine) ==
    /\ pc[p] = Idle
    /\ LET assignee == IF mine /\ currentAgentId[p] # NULL
                       THEN currentAgentId[p] ELSE assignedTo
       IN  \E rows \in listTasks(status, assignee, NULL) :
              Finish(p, [op |-> "task_list", status |-> status, assignedTo |-> assignee,
                         list |-> [i \in 1..Len(rows) |-> rows[i].id]])
    /\ UNCHANGED <<now, agents, locks, tasks, agentSeq, taskSeq, currentAgentId, memory, events>>

\* is_my_turn without a task id: getNextAvailableTask(agentId)
IsMyTurn(p) ==
    /\ pc[p] = Idle
    /\ IF currentAgentId[p] = NULL
       THEN Finish(p, [op |-> "is_my_turn", out |-> "not_registered"])
       ELSE \E task \in getNextAvailableTask(currentAgentId[p]) :
               Finish(p, [op |-> "is_my_turn", out |-> "answered",
                          agentId |-> currentAgentId[p], taskId |-> task.id])
    /\ UNCHANGED <<now, agents, locks, tasks, agentSeq, taskSeq, currentAgentId, memory, events>>

\* ------------------------------------------------- utility tool handlers
\* bootstrap's agent name: the argument, or agent-${Date.now()} without one
BootstrapName(name) == IF name = NULL THEN "agent-" \o ToString(now) ELSE name

\* bootstrap, first db call: getAgentByName(agentName); capabilities come from
\* the environment, 'code' by default
BootstrapLookup(p, name, role) ==
    /\ pc[p] = Idle
    /\ LET agentName == BootstrapName(name)
           existing == getAgentByName(agentName)
       IN  IF existing # NoRow
           THEN /\ currentAgentId' = [currentAgentId EXCEPT ![p] = existing.id]
                /\ pc' = [pc EXCEPT ![p] = [op |-> "bootstrap", step |-> "heartbeat",
                                            id |-> existing.id, name |-> agentName]]
           ELSE /\ agentSeq + PendingInserts < MaxAgents
                /\ pc' = [pc EXCEPT ![p] = [op |-> "bootstrap", step |-> "insert",
                                            name |-> agentName, role |-> role,
                                            capabilities |-> <<"code">>]]
                /\ UNCHANGED currentAgentId
    /\ UNCHANGED <<now, agents, locks, tasks, agentSeq, taskSeq, result, memory, events>>

\* bootstrap, reconnect: updateAgentHeartbeat(agent.id, ACTIVE); of the reads that
\* follow, getMemory and listMemory sweep the expired memory entries
BootstrapHeartbeat(p) ==
    /\ pc[p].op = "bootstrap" /\ pc[p].step = "heartbeat"
    /\ agents' = updateAgentHeartbeatIn(agents, pc[p].id, "active", now)
    /\ Finish(p, [op |-> "bootstrap", out |-> "reconnected",
                  id |-> pc[p].id, name |-> pc[p].name])
    /\ UNCHANGED <<now, locks, tasks, agentSeq, taskSeq, currentAgentId, events>>
    /\ memory' = cleanupExpiredMemory(memory, now)

\* bootstrap, new agent: createAgent({name, role, capabilities, ACTIVE}), then
\* the same reads
BootstrapInsert(p) ==
    /\ pc[p].op = "bootstrap" /\ pc[p].step = "insert"
    /\ LET id == AgentId(agentSeq + 1)
       IN  /\ agents' = insertAgent(agents, createAgentRow(id, pc[p].name, pc[p].role,
                                        pc[p].capabilities, "active", now))
           /\ agentSeq' = agentSeq + 1
           /\ currentAgentId' = [currentAgentId EXCEPT ![p] = id]
           /\ events' = logEvent(events, "agent_registered", id, id, now)
           /\ Finish(p, [op |-> "bootstrap", out |-> "registered",
                         id |-> id, name |-> pc[p].name])
    /\ UNCHANGED <<now, locks, tasks, taskSeq>>
    /\ memory' = cleanupExpiredMemory(memory, now)

\* claim_todo handlers that may still create a task
PendingTodos == Cardinality({q \in Procs : pc[q].op = "claim_todo"})

\* claim_todo, first db call: createAgent({sub-${Date.now()}, SUB, ['code'], BUSY}),
\* without a lookup of the name
ClaimTodoRegister(p, title, priority) ==
    /\ pc[p] = Idle
    /\ agentSeq + PendingInserts < MaxAgents
    /\ taskSeq + PendingTodos < MaxTasks
    /\ LET id == AgentId(agentSeq + 1)
       IN  /\ agents' = insertAgent(agents, createAgentRow(id, "sub-" \o ToString(now),
                                        "sub", <<"code">>, "busy", now))
           /\ agentSeq' = agentSeq + 1
           /\ currentAgentId' = [currentAgentId EXCEPT ![p] = id]
           /\ pc' = [pc EXCEPT ![p] = [op |-> "claim_todo", step |-> "find",
                                       agentId |-> id, title |-> title,
                                       priority |-> priority]]
           /\ events' = logEvent(events, "agent_registered", id, id, now)
    /\ UNCHANGED <<now, locks, tasks, taskSeq, result, memory>>

\* allTasks.find(...): the first listed task of that title that is pending or assigned
FindTodo(rows, title) ==
    LET hits == {i \in 1..Len(rows) : /\ rows[i].title = title
                                      /\ rows[i].status \in {"pending", "assigned"}}
    IN  IF hits = {} THEN NoRow ELSE rows[CHOOSE i \in hits : \A j \in hits : i <= j]

\* claim_todo: listTasks() and the search; a task found goes to updateTask
\* (its read of the row), without a check of its dependencies
ClaimTodoFind(p) ==
    /\ pc[p].op = "claim_todo" /\ pc[p].step = "find"
    /\ \E rows \in listTasks(NULL, NULL, NULL) :
          LET task == FindTodo(rows, pc[p].title)
          IN  IF task # NoRow
              THEN pc' = [pc EXCEPT ![p] = [op |-> "claim_todo", step |-> "write",
                             agentId |-> pc[p].agentId, taskId |-> task.id,
                             set |-> UpdateClauses(task, "in_progress", pc[p].agentId,
                                                   NULL, NoMetadata, now)]]
              ELSE pc' = [pc EXCEPT ![p] = [op |-> "claim_todo", step |-> "create",
                             agentId |-> pc[p].agentId, title |-> pc[p].title,
                             priority |-> pc[p].priority]]
    /\ UNCHANGED <<now, agents, locks, tasks, agentSeq, taskSeq, currentAgentId, result, memory, events>>

\* claim_todo, no task found: createTask({..., IN_PROGRESS, assignedTo and
\* createdBy the new agent, startedAt: new Date()})
ClaimTodoCreate(p) ==
    /\ pc[p].op = "claim_todo" /\ pc[p].step = "create"
    /\ IF TaskForeignKeyViolation(pc[p].agentId)
       THEN /\ Finish(p, [op |-> "claim_todo", out |-> "error_foreign_key"])
            /\ UNCHANGED <<tasks, taskSeq, events>>
       ELSE LET id == TaskId(taskSeq + 1)
            IN  /\ tasks' = Append(tasks, createTaskRow(id, pc[p].title, pc[p].priority,
                                pc[p].agentId, pc[p].agentId, <<>>,
                                "in_progress", now, now))
                /\ taskSeq' = taskSeq + 1
                /\ events' = logEvent(events, "task_created", pc[p].agentId, id, now)
                /\ Finish(p, [op |-> "claim_todo", out |-> "created", taskId |-> id])
    /\ UNCHANGED <<now, agents, locks, agentSeq, currentAgentId, memory>>

\* ------------------------------------------------- memory store operations
\* setMemory({key, value, namespace, createdBy: the caller's agent, ttlSeconds})
SetMemory(p, key, value, namespace, ttlSeconds) ==
    /\ pc[p] = Idle
    /\ LET entry == createMemoryEntry(key, value, namespace, currentAgentId[p],
                                      ttlSeconds, now)
       IN  IF MemoryForeignKeyViolation(memory, entry)
           THEN /\ Finish(p, [op |-> "memory_set", out |-> "error_foreign_key",
                              key |-> key, namespace |-> namespace])
                /\ UNCHANGED <<memory, events>>
           ELSE /\ memory' = upsertMemory(memory, entry)
                /\ events' = logEvent(events, "memory_set", entry.createdBy, key, now)
                /\ Finish(p, [op |-> "memory_set", out |-> "set", key |-> key,
                              namespace |-> namespace, value |-> value,
                              ttlSeconds |-> ttlSeconds, at |-> now])
    /\ UNCHANGED <<now, agents, locks, tasks, agentSeq, taskSeq, currentAgentId>>

\* getMemory(key, namespace): the sweep, then the row or null
GetMemory(p, key, namespace) ==
    /\ pc[p] = Idle
    /\ memory' = cleanupExpiredMemory(memory, now)
    /\ LET row == memoryRow(memory', key, namespace)
       IN  Finish(p, [op |-> "memory_get", key |-> key, namespace |-> namespace,
                      found |-> row # NoRow, at |-> now,
                      entries |-> IF row = NoRow THEN <<>> ELSE <<row>>])
    /\ UNCHANGED <<now, agents, locks, tasks, agentSeq, taskSeq, currentAgentId, events>>

\* listMemory(namespace): the sweep, then the rows of the namespace by key
ListMemory(p, namespace) ==
    /\ pc[p] = Idle
    /\ memory' = cleanupExpiredMemory(memory, now)
    /\ Finish(p, [op |-> "memory_list", namespace |-> namespace, at |-> now,
                  entries |-> listMemoryRows(memory', namespace)])
    /\ UNCHANGED <<now, agents, locks, tasks, agentSeq, taskSeq, currentAgentId, events>>

\* deleteMemory(key, namespace): true when a row was deleted
DeleteMemory(p, key, namespace) ==
    /\ pc[p] = Idle
    /\ memory' = {e \in memory : ~(e.namespace = namespace /\ e.key = key)}
    /\ events' = IF memoryRow(memory, key, namespace) # NoRow
                 THEN logEvent(events, "memory_delete", NULL, key, now)
                 ELSE events
    /\ Finish(p, [op |-> "memory_delete", key |-> key, namespace |-> namespace,
                  out |-> memoryRow(memory, key, namespace) # NoRow])
    /\ UNCHANGED <<now, agents, locks, tasks, agentSeq, taskSeq, currentAgentId>>

\* ------------------------------------------------- the lock manager's system
\* alice and bob have registered from p1 and p2 (agent_register twice)
InitLock ==
    /\ now = 0
    /\ agents = <<createAgentRow(AgentId(1), "alice", "sub", <<"code">>, "active", 0),
                  createAgentRow(AgentId(2), "bob", "sub", <<"code">>, "active", 0)>>
    /\ locks = {}
    /\ memory = {}
    /\ tasks = <<>>
    /\ agentSeq = 2
    /\ taskSeq = 0
    /\ currentAgentId = [p \in Procs |-> IF p = "p1" THEN AgentId(1) ELSE AgentId(2)]
    /\ pc = [p \in Procs |-> Idle]
    /\ result = [op |-> "none"]
    /\ events = EarlierEvents

NextLock ==
    \/ Tick(MaxTime)
    \/ \E p \in Procs : AgentUnregisterRelease(p)
    \/ \E p \in Procs : AgentUnregisterDelete(p)
    \/ \E p \in Procs, r \in Resources, t \in Timeouts : LockAcquireCheck(p, r, t)
    \/ \E p \in Procs : LockAcquireInsert(p)
    \/ \E p \in Procs, r \in Resources : LockRelease(p, r)
    \/ \E p \in Procs, r \in Resources : LockCheck(p, r)

SpecLock == InitLock /\ [][NextLock]_vars

\* --------------------------------------------------------- the task queue
\* alice and bob have registered from p1 and p2; no task yet
InitQueue == InitLock

DependencyLists == {<<>>} \cup {<<d>> : d \in TaskIds \cup {MissingTaskId}}

\* alice creates tasks, bob asks for work, claims and completes
NextQueue ==
    \/ Tick(MaxQueueTime)
    \/ \E pr \in {"normal", "high"}, d \in DependencyLists :
          taskSeq < MaxTasks /\ TaskCreate("p1", "x", pr, NULL, d)
    \/ \E id \in TaskIds \cup {NULL, MissingTaskId} : TaskClaimSelect("p2", id)
    \/ TaskClaimCheck("p2")
    \/ \E id \in TaskIds : TaskCompleteRead("p2", id, NULL)
    \/ UpdateTaskWrite("p2")
    \/ IsMyTurn("p2")

SpecQueue == InitQueue /\ [][NextQueue]_vars

\* ------------------------------------------------- the queue, any contents
\* The tables of up to MaxTasks tasks that task_create and task_update build:
\* task i was created by alice at some time with some priority, assignee and
\* dependency list (ids of earlier tasks, or an id that names no task), and was
\* then left alone or moved to some status by a task_update in the same second.
CreatedRows(tbl) ==
    LET i == Len(tbl) + 1
        since == IF i = 1 THEN 0 ELSE tbl[i - 1].createdAt
    IN  {createTaskRow(TaskId(i), "x", pr, AgentId(1), a, d, "pending", NullTime, c) :
            pr \in {"normal", "high"},
            a \in {NULL, AgentId(2)},
            d \in {<<>>, <<MissingTaskId>>} \cup {<<TaskId(j)>> : j \in 1..(i - 1)},
            c \in since..MaxQueueTime}

UpdatedRows(row) ==
    {row} \cup {applyUpdate(<<row>>, row.id,
                    UpdateClauses(row, st, NULL, NULL, NoMetadata, row.createdAt))[1] :
                st \in Statuses}

RECURSIVE QueueTables(_)
QueueTables(n) ==
    IF n = 0 THEN {<<>>}
    ELSE UNION {{Append(tbl, row) :
                    row \in UNION {UpdatedRows(c) : c \in CreatedRows(tbl)}} :
                tbl \in QueueTables(n - 1)}

InitAnyQueue ==
    /\ now = MaxQueueTime
    /\ agents = <<createAgentRow(AgentId(1), "alice", "sub", <<"code">>, "active", 0),
                  createAgentRow(AgentId(2), "bob", "sub", <<"code">>, "active", 0)>>
    /\ locks = {}
    /\ memory = {}
    /\ tasks \in UNION {QueueTables(n) : n \in 0..MaxTasks}
    /\ agentSeq = 2
    /\ taskSeq = Len(tasks)
    /\ currentAgentId = [p \in Procs |-> IF p = "p1" THEN AgentId(1) ELSE AgentId(2)]
    /\ pc = [p \in Procs |-> Idle]
    /\ result = [op |-> "none"]
    /\ events = EarlierEvents

\* one handler, or one from each process, is run on the table drawn
NextAnyQueue ==
    \/ \E p \in Procs : result.op = "none" /\ IsMyTurn(p)
    \/ \E p \in Procs, id \in TaskIds \cup {NULL} :
          result.op = "none" /\ TaskClaimSelect(p, id)
    \/ \E p \in Procs : TaskClaimCheck(p)
    \/ \E p \in Procs : UpdateTaskWrite(p)

SpecAnyQueue == InitAnyQueue /\ [][NextAnyQueue]_vars

\* ------------------------------------------------------- listing the queue
\* alice creates tasks of any priority; either process lists them
NextList ==
    \/ Tick(MaxQueueTime)
    \/ \E pr \in Priorities :
          taskSeq < MaxListTasks /\ TaskCreate("p1", "x", pr, NULL, <<>>)
    \/ \E p \in Procs, st \in {NULL, "pending"}, mine \in BOOLEAN : TaskList(p, st, NULL, mine)

SpecList == InitQueue /\ [][NextList]_vars

\* ------------------------------------------------------------ registration
\* no agent yet; a process that has not registered has created the todo "x"
\* (task_create does not ask for a registration: createdBy is null)
InitReg ==
    /\ now = 0
    /\ agents = <<>>
    /\ locks = {}
    /\ memory = {}
    /\ tasks = <<createTaskRow(TaskId(1), "x", "normal", NULL, NULL, <<>>,
                               "pending", NullTime, 0)>>
    /\ agentSeq = 0
    /\ taskSeq = 1
    /\ currentAgentId = [p \in Procs |-> NULL]
    /\ pc = [p \in Procs |-> Idle]
    /\ result = [op |-> "none"]
    /\ events = EarlierEvents

\* two processes register, reconnect, bootstrap, claim todos and unregister
Profiles == {<<"main", <<"code", "review">>>>, <<"sub", <<"code">>>>}

NextReg ==
    \/ Tick(MaxQueueTime)
    \/ \E p \in Procs, pf \in Profiles : AgentRegisterLookup(p, "alice", pf[1], pf[2])
    \/ \E p \in Procs : AgentRegisterHeartbeat(p)
    \/ \E p \in Procs : AgentRegisterInsert(p)
    \/ \E p \in Procs, n \in {"alice", NULL} : BootstrapLookup(p, n, "sub")
    \/ \E p \in Procs : BootstrapHeartbeat(p)
    \/ \E p \in Procs : BootstrapInsert(p)
    \/ \E p \in Procs : ClaimTodoRegister(p, "x", "normal")
    \/ \E p \in Procs : ClaimTodoFind(p)
    \/ \E p \in Procs : ClaimTodoCreate(p)
    \/ \E p \in Procs : UpdateTaskWrite(p)
    \/ \E p \in Procs : AgentUnregisterRelease(p)
    \/ \E p \in Procs : AgentUnregisterDelete(p)

SpecReg == InitReg /\ [][NextReg]_vars

\* ------------------------------------------------------- a task's lifecycle
\* alice and bob have registered and alice has created the task "x"
InitLife ==
    /\ now = 0
    /\ agents = <<createAgentRow(AgentId(1), "alice", "sub", <<"code">>, "active", 0),
                  createAgentRow(AgentId(2), "bob", "sub", <<"code">>, "active", 0)>>
    /\ locks = {}
    /\ memory = {}
    /\ tasks = <<createTaskRow(TaskId(1), "x", "normal", AgentId(1), NULL, <<>>,
                               "pending", NullTime, 0)>>
    /\ agentSeq = 2
    /\ taskSeq = 1
    /\ currentAgentId = [p \in Procs |-> IF p = "p1" THEN AgentId(1) ELSE AgentId(2)]
    /\ pc = [p \in Procs |-> Idle]
    /\ result = [op |-> "none"]
    /\ events = EarlierEvents

\* both processes claim, update and complete the tasks; a sub-agent may join
\* through claim_todo
NextLife ==
    \/ Tick(MaxQueueTime)
    \/ \E p \in Procs, id \in {TaskId(1), NULL} : TaskClaimSelect(p, id)
    \/ \E p \in Procs : TaskClaimCheck(p)
    \/ \E p \in Procs, st \in Statuses : TaskUpdateRead(p, TaskId(1), st, NoMetadata, NULL)
    \/ \E p \in Procs : TaskCompleteRead(p, TaskId(1), NULL)
    \/ \E p \in Procs : UpdateTaskWrite(p)
    \/ ClaimTodoRegister("p2", "x", "normal")
    \/ ClaimTodoFind("p2")
    \/ ClaimTodoCreate("p2")

SpecLife == InitLife /\ [][NextLife]_vars

\* ------------------------------------------------------- the memory store
Ttls == {NullTtl} \cup (0..MaxTtl)

\* what alice writes: any value and ttl under ("default", "k1"), and entries under
\* a second key and a second namespace
Writes ==
    {<<"k1", v, "default", ttl>> : v \in Values, ttl \in Ttls}
    \cup {<<"k2", "v1", "default", ttl>> : ttl \in {NullTtl, MaxTtl}}
    \cup {<<"k1", "v1", "context", NullTtl>>}

\* alice writes and deletes entries, bob reads them
NextMem ==
    \/ Tick(MaxMemTime)
    \/ \E w \in Writes : SetMemory("p1", w[1], w[2], w[3], w[4])
    \/ \E k \in Keys, ns \in Namespaces : GetMemory("p2", k, ns)
    \/ \E ns \in Namespaces : ListMemory("p2", ns)
    \/ \E k \in Keys, ns \in Namespaces : DeleteMemory("p1", k, ns)

SpecMem == InitLock /\ [][NextMem]_vars


\* ------------------------------------------- unregistration and identities
\* from the state where alice has created the task "x": both processes register
\* under either name (a reconnect shares the identity), take locks, write
\* memory entries, send heartbeats and unregister
NextUnreg ==
    \/ \E p \in Procs, n \in Names : AgentRegisterLookup(p, n, "sub", <<"code">>)
    \/ \E p \in Procs : AgentRegisterHeartbeat(p)
    \/ \E p \in Procs : AgentRegisterInsert(p)
    \/ \E p \in Procs : AgentHeartbeat(p, NULL)
    \/ \E p \in Procs : AgentUnregisterRelease(p)
    \/ \E p \in Procs : AgentUnregisterDelete(p)
    \/ \E p \in Procs, r \in Resources : LockAcquireCheck(p, r, MaxTimeout)
    \/ \E p \in Procs : LockAcquireInsert(p)
    \/ \E p \in Procs, r \in Resources : LockCheck(p, r)
    \/ SetMemory("p2", "k1", "v1", "default", NullTtl)

SpecUnreg == InitLife /\ [][NextUnreg]_vars

\* ------------------------------------------------------ the staleness sweep
\* alice and bob are registered; they send heartbeats and take locks
\* while the clock passes the heartbeat ttl, and bob's process lists the agents
NextStale ==
    \/ Elapse(1, MaxSlack)
    \/ Elapse(HEARTBEAT_TTL_SECONDS, HEARTBEAT_TTL_SECONDS + MaxSlack)
    \/ \E p \in Procs, st \in {NULL, "busy"} : AgentHeartbeat(p, st)
    \/ \E p \in Procs, r \in Resources : LockAcquireCheck(p, r, DefaultLockTimeout)
    \/ \E p \in Procs : LockAcquireInsert(p)
    \/ AgentListSweep("p2", NULL, NULL)
    \/ AgentListRelease("p2")
    \/ AgentListUpdate("p2")
    \/ AgentListRead("p2")

SpecStale == InitLock /\ [][NextStale]_vars

\* ------------------------------------------------------------- heartbeats
\* statuses of the agent_heartbeat argument that the steps use; NULL is no status
BeatStatuses == {NULL, "busy"}

\* alice and bob send heartbeats while either process may reconnect under the
\* other's name and unregister, so that a session can outlive its agent's row
NextBeat ==
    \/ Tick(MaxQueueTime)
    \/ \E p \in Procs, st \in BeatStatuses : AgentHeartbeat(p, st)
    \/ \E p \in Procs, n \in Names : AgentRegisterLookup(p, n, "sub", <<"code">>)
    \/ \E p \in Procs : AgentRegisterHeartbeat(p)
    \/ \E p \in Procs : AgentRegisterInsert(p)
    \/ \E p \in Procs : AgentUnregisterRelease(p)
    \/ \E p \in Procs : AgentUnregisterDelete(p)

SpecBeat == InitLock /\ [][NextBeat]_vars

\* ------------------------------------------------------- offline agents
\* time passes, bob's session lists the agents, and both sessions send
\* heartbeats with and without a status and register again as alice
NextOffline ==
    \/ Elapse(1, MaxSlack)
    \/ Elapse(HEARTBEAT_TTL_SECONDS, HEARTBEAT_TTL_SECONDS + MaxSlack)
    \/ \E p \in Procs, st \in BeatStatuses : AgentHeartbeat(p, st)
    \/ \E p \in Procs : AgentRegisterLookup(p, "alice", "sub", <<"code">>)
    \/ \E p \in Procs : AgentRegisterHeartbeat(p)
    \/ AgentListSweep("p2", NULL, NULL)
    \/ AgentListRelease("p2")
    \/ AgentListUpdate("p2")
    \/ AgentListRead("p2")

SpecOffline == InitLock /\ [][NextOffline]_vars

\* ------------------------------------------------------------ the audit log
\* a fresh database in which alice and bob have registered from p1 and p2: the
\* events table holds their two registrations
InitAudit ==
    /\ now = 0
    /\ agents = <<createAgentRow(AgentId(1), "alice", "sub", <<"code">>, "active", 0),
                  createAgentRow(AgentId(2), "bob", "sub", <<"code">>, "active", 0)>>
    /\ locks = {}
    /\ memory = {}
    /\ tasks = <<>>
    /\ agentSeq = 2
    /\ taskSeq = 0
    /\ currentAgentId = [p \in Procs |-> IF p = "p1" THEN AgentId(1) ELSE AgentId(2)]
    /\ pc = [p \in Procs |-> Idle]
    /\ result = [op |-> "none"]
    /\ events = <<createEvent("agent_registered", AgentId(1), AgentId(1), 0),
                  createEvent("agent_registered", AgentId(2), AgentId(2), 0)>>

\* operations of every table that log events, with those that change the store
\* without logging (heartbeat, reconnect, bulk release), on one resource, one
\* task and one memory key; the clock stands still
NextAudit ==
    \/ AgentRegisterLookup("p1", "alice", "sub", <<"code">>)
    \/ AgentRegisterHeartbeat("p1")
    \/ AgentRegisterInsert("p1")
    \/ AgentHeartbeat("p1", NULL)
    \/ AgentUnregisterRelease("p1")
    \/ AgentUnregisterDelete("p1")
    \/ \E p \in Procs : LockAcquireCheck(p, "r1", DefaultLockTimeout)
    \/ \E p \in Procs : LockAcquireInsert(p)
    \/ \E p \in Procs : LockRelease(p, "r1")
    \/ taskSeq < 1 /\ TaskCreate("p2", "x", "normal", NULL, <<>>)
    \/ \E id \in {TaskId(1), MissingTaskId}, st \in {"completed", "cancelled"} :
          TaskUpdateRead("p2", id, st, NoMetadata, NULL)
    \/ UpdateTaskWrite("p2")
    \/ SetMemory("p2", "k1", "v1", "default", NullTtl)
    \/ DeleteMemory("p2", "k1", "default")

SpecAudit == InitAudit /\ [][NextAudit]_vars

\* ------------------------------------------------- sessions without identity
\* alice and bob unregister and register again while both sessions heartbeat,
\* claim, ask for their turn and take and release the lock
NextNoId ==
    \/ \E p \in Procs : AgentUnregisterRelease(p)
    \/ \E p \in Procs : AgentUnregisterDelete(p)
    \/ AgentRegisterLookup("p1", "alice", "sub", <<"code">>)
    \/ AgentRegisterHeartbeat("p1")
    \/ AgentRegisterInsert("p1")
    \/ \E p \in Procs : AgentHeartbeat(p, NULL)
    \/ taskSeq < 1 /\ TaskCreate("p2", "x", "normal", NULL, <<>>)
    \/ \E p \in Procs, id \in {TaskId(1), NULL} : TaskClaimSelect(p, id)
    \/ \E p \in Procs : TaskClaimCheck(p)
    \/ \E p \in Procs : UpdateTaskWrite(p)
    \/ \E p \in Procs : IsMyTurn(p)
    \/ \E p \in Procs : LockAcquireCheck(p, "r1", DefaultLockTimeout)
    \/ \E p \in Procs : LockAcquireInsert(p)
    \/ \E p \in Procs : LockRelease(p, "r1")

SpecNoId == InitAudit /\ [][NextNoId]_vars

\* ---------------------------------------------------------- task metadata
\* metadata arguments of updateTask: none, or one or two of the keys
MetaUpdates ==
    {NoMetadata, [progress |-> 1], [progress |-> 2], [stage |-> 1],
     [progress |-> 2, stage |-> 2]}

\* both processes update the task "x", with and without metadata
NextMeta ==
    \/ Tick(MaxQueueTime)
    \/ \E p \in Procs, st \in {NULL, "in_progress"}, m \in MetaUpdates :
          TaskUpdateRead(p, TaskId(1), st, m, NULL)
    \/ \E p \in Procs : UpdateTaskWrite(p)

SpecMeta == InitLife /\ [][NextMeta]_vars

\* ------------------------------------------------------- the task audit
UpdateStatuses == Statuses \cup {NULL}

\* bob creates one task; both processes update it, or a task that does not
\* exist, to every status and without a status
NextTaskAudit ==
    \/ /\ taskSeq < 1
       /\ TaskCreate("p2", "x", "normal", NULL, <<>>)
    \/ \E p \in Procs, id \in {TaskId(1), MissingTaskId}, st \in UpdateStatuses :
          TaskUpdateRead(p, id, st, NoMetadata, NULL)
    \/ \E p \in Procs : UpdateTaskWrite(p)

SpecTaskAudit == InitAudit /\ [][NextTaskAudit]_vars

\* ------------------------------------------------- a task with a dependency
\* alice has created the task "y" and the task "x" that depends on it
InitDeps ==
    /\ now = 0
    /\ agents = <<createAgentRow(AgentId(1), "alice", "sub", <<"code">>, "active", 0),
                  createAgentRow(AgentId(2), "bob", "sub", <<"code">>, "active", 0)>>
    /\ locks = {}
    /\ memory = {}
    /\ tasks = <<createTaskRow(TaskId(1), "y", "normal", AgentId(1), NULL, <<>>,
                               "pending", NullTime, 0),
                 createTaskRow(TaskId(2), "x", "normal", AgentId(1), NULL, <<TaskId(1)>>,
                               "pending", NullTime, 0)>>
    /\ agentSeq = 2
    /\ taskSeq = 2
    /\ currentAgentId = [p \in Procs |-> IF p = "p1" THEN AgentId(1) ELSE AgentId(2)]
    /\ pc = [p \in Procs |-> Idle]
    /\ result = [op |-> "none"]
    /\ events = EarlierEvents

\* both processes claim, start, reopen and complete the two tasks
NextDeps ==
    \/ \E p \in Procs, id \in {TaskId(1), TaskId(2), NULL} : TaskClaimSelect(p, id)
    \/ \E p \in Procs : TaskClaimCheck(p)
    \/ \E p \in Procs, id \in {TaskId(1), TaskId(2)}, st \in {"pending", "in_progress"} :
          TaskUpdateRead(p, id, st, NoMetadata, NULL)
    \/ \E p \in Procs, id \in {TaskId(1), TaskId(2)} : TaskCompleteRead(p, id, NULL)
    \/ \E p \in Procs : UpdateTaskWrite(p)

SpecDeps == InitDeps /\ [][NextDeps]_vars

\* ------------------------------------------------------------ the listings
\* the staleness sweep's system, with the coordination status asked by either
\* process
NextStatus ==
    \/ Elapse(1, MaxSlack)
    \/ Elapse(HEARTBEAT_TTL_SECONDS, HEARTBEAT_TTL_SECONDS + MaxSlack)
    \/ \E p \in Procs, st \in {NULL, "busy"} : AgentHeartbeat(p, st)
    \/ \E p \in Procs : LockAcquireCheck(p, "r1", DefaultLockTimeout)
    \/ \E p \in Procs : LockAcquireInsert(p)
    \/ \E p \in Procs : LockCheck(p, "r1")
    \/ AgentListSweep("p2", NULL, NULL)
    \/ AgentListRelease("p2")
    \/ AgentListUpdate("p2")
    \/ AgentListRead("p2")
    \/ \E p \in Procs : CoordinationStatus(p)

SpecStatus == InitLock /\ [][NextStatus]_vars

\* the same system from a short event log
SpecStatusAudit == InitAudit /\ [][NextStatus]_vars

\* ----------------------------------------------------- lock manager claims
\* C1: in every reachable state there is at most one lock row on every resource,
\* also when acquires race between their check and their insert and when locks
\* expire and are re-acquired.
C1_LockUniqueness ==
    \A l1 \in locks : \A l2 \in locks : l1.resource = l2.resource => l1 = l2

\* an acquire passed its check, lost the insert to the other agent's lock, and
\* that lock was acquired after time had passed
C1_Witness ==
    /\ result.op = "lock_acquire" /\ result.out = "failed"
    /\ \E l \in locks : /\ l.resource = result.resource
                        /\ l.heldBy # currentAgentId[result.proc]
                        /\ l.acquiredAt > 0

\* the agent on whose behalf process p acquires in this step
Acquirer(p) == IF pc[p].op = "lock_acquire" THEN pc[p].agentId ELSE currentAgentId[p]

\* process p ends a lock_acquire of resource r in this step
AcquireEnds(p, r) ==
    /\ pc'[p] = Idle
    /\ \/ \E t \in Timeouts : LockAcquireCheck(p, r, t)
       \/ pc[p].op = "lock_acquire" /\ pc[p].resource = r /\ LockAcquireInsert(p)

\* C2: an acquire of R by A that ends while another agent B holds an unexpired
\* lock on R returns "denied" carrying B's id and leaves B's lock as it was, also
\* when B's lock was inserted between A's check and A's insert.
C2_DeniedCarriesHolder ==
    [][\A p \in Procs : \A r \in Resources : \A l \in locks :
          (/\ AcquireEnds(p, r)
           /\ Acquirer(p) # NULL
           /\ l.resource = r /\ l.heldBy # Acquirer(p) /\ ~Expired(l, now))
          => /\ result'.out = "denied"
             /\ result'.holder = l.heldBy
             /\ l \in locks']_vars

\* C3: release(R, A) removes the lock on R and returns true only if A holds it;
\* if R is unlocked or held by another agent it returns false and no lock changes.
C3_ReleaseOnlyByHolder ==
    [][\A p \in Procs : \A r \in Resources :
          (LockRelease(p, r) /\ currentAgentId[p] # NULL)
          => IF \E l \in locks : l.resource = r /\ l.heldBy = currentAgentId[p]
             THEN result'.out = "released" /\ locks' = {l \in locks : l.resource # r}
             ELSE result'.out = "not_released" /\ locks' = locks]_vars

\* a release was refused because another agent holds the resource
C3_Witness ==
    /\ result.op = "lock_release" /\ result.out = "not_released"
    /\ \E l \in locks : /\ l.resource = result.resource
                        /\ l.heldBy # result.agentId
                        /\ l.acquiredAt > 0

RegisterEnds(p) ==
    /\ pc[p].op \in {"agent_register", "bootstrap"}
    /\ pc'[p] = Idle

\* C5: a process that registers a name and then, with no other call ending in
\* between, registers the same name again is given the same agent id both times.
C5_SameNameSameId ==
    [][\A p \in Procs :
          (/\ RegisterEnds(p)
           /\ result.op \in {"agent_register", "bootstrap"}
           /\ result.proc = p
           /\ result.name = pc[p].name)
          => result'.id = result.id]_vars

\* C6: no two rows of the agents table carry the same name.
C6_UniqueNames ==
    \A i \in 1..Len(agents) : \A j \in 1..Len(agents) :
        i # j => agents[i].name # agents[j].name

\* ------------------------------------------------------- task queue claims
\* the ranks of the priorities: urgent before high before normal before low
RankOf(t) ==
    CASE t.priority = "urgent" -> 1
      [] t.priority = "high" -> 2
      [] t.priority = "normal" -> 3
      [] t.priority = "low" -> 4

\* every dependency of t names a task that exists and is completed
DependenciesCompleted(t) ==
    \A i \in 1..Len(t.dependencies) :
        \E d \in SeqToSet(tasks) : d.id = t.dependencies[i] /\ d.status = "completed"

\* C7: a task with a dependency that is missing or not completed is never
\* returned by nextAvailable, whoever asks, and a claim of it is refused with
\* "dependencies not met" and changes no task.
C7_DependencyGating ==
    /\ [](\A a \in AgentIds : \A t \in getNextAvailableTask(a) :
             t # NoRow => DependenciesCompleted(t))
    /\ [][\A p \in Procs :
             (TaskClaimCheck(p) /\ ~DependenciesCompleted(getTask(pc[p].taskId)))
             => /\ result'.out = "dependencies_not_met"
                /\ result'.taskId = pc[p].taskId
                /\ tasks' = tasks]_vars

\* a claim by task id was refused for a dependency that is not completed
C7_Witness ==
    /\ result.op = "task_claim" /\ result.out = "dependencies_not_met"
    /\ getTask(result.taskId).status = "pending"
    /\ ~DependenciesCompleted(getTask(result.taskId))

\* C8: in every list that list() returns, a task of higher priority comes before
\* one of lower priority and, among equal priorities, the one created earlier
\* comes first; tasks created as low, urgent, normal, high are listed as urgent,
\* high, normal, low.
C8_ListOrder ==
    /\ \A st \in Statuses \cup {NULL} : \A a \in AgentIds \cup {NULL} :
          \A rows \in listTasks(st, a, NULL) :
             \A i \in 1..Len(rows) : \A j \in 1..Len(rows) :
                i < j => /\ RankOf(rows[i]) <= RankOf(rows[j])
                         /\ RankOf(rows[i]) = RankOf(rows[j])
                               => rows[i].createdAt <= rows[j].createdAt
    /\ (/\ Len(tasks) = 4
        /\ [i \in 1..4 |-> tasks[i].priority] = <<"low", "urgent", "normal", "high">>)
       => listTasks(NULL, NULL, NULL) = {<<tasks[2], tasks[4], tasks[3], tasks[1]>>}

\* task_list returned urgent, high, normal, low for tasks created low, urgent,
\* normal, high
C8_Witness ==
    /\ Len(tasks) = 4
    /\ [i \in 1..4 |-> tasks[i].priority] = <<"low", "urgent", "normal", "high">>
    /\ result.op = "task_list"
    /\ result.list = <<TaskId(2), TaskId(4), TaskId(3), TaskId(1)>>

\* agent a may be offered task t
Offerable(t, a) ==
    /\ t.status = "pending" \/ (t.status = "assigned" /\ t.assignedTo = a)
    /\ DependenciesCompleted(t)

\* t comes strictly before u in priority-then-creation order
StrictlyBefore(t, u) ==
    \/ RankOf(t) < RankOf(u)
    \/ RankOf(t) = RankOf(u) /\ t.createdAt < u.createdAt

\* C9: nextAvailable(A) returns a first task, in priority-then-creation order, of
\* those that are pending or assigned to A and have all dependencies completed,
\* and none when there is no such task; so never a task in_progress, completed,
\* failed or cancelled, nor one assigned to another agent.
C9_NextAvailable ==
    \A a \in AgentIds : \A r \in getNextAvailableTask(a) :
        IF \E t \in SeqToSet(tasks) : Offerable(t, a)
        THEN /\ r \in SeqToSet(tasks)
             /\ Offerable(r, a)
             /\ \A t \in SeqToSet(tasks) : Offerable(t, a) => ~StrictlyBefore(t, r)
        ELSE r = NoRow

\* is_my_turn offered an agent a task although a task that comes before it in
\* the order is assigned to the other agent
C9_Witness ==
    /\ result.op = "is_my_turn" /\ result.out = "answered"
    /\ result.taskId # NULL
    /\ \E t \in SeqToSet(tasks) :
          /\ t.status = "assigned" /\ t.assignedTo # NULL
          /\ t.assignedTo # result.agentId
          /\ DependenciesCompleted(t)
          /\ StrictlyBefore(t, getTask(result.taskId))

\* the queue holds exactly T1 (normal, no dependency) and T2 (high, pending,
\* depending on T1)
EndToEndQueue ==
    /\ Len(tasks) = 2
    /\ tasks[1].priority = "normal" /\ tasks[1].dependencies = <<>>
    /\ tasks[2].priority = "high" /\ tasks[2].dependencies = <<tasks[1].id>>
    /\ tasks[2].status = "pending"

\* C10: with T1 (normal) and T2 (high, depending on T1) both pending,
\* nextAvailable for a registered agent returns T1; once T1 is completed it
\* returns T2.
C10_EndToEnd ==
    \A a \in AgentIds :
        EndToEndQueue =>
            /\ tasks[1].status = "pending" => getNextAvailableTask(a) = {tasks[1]}
            /\ tasks[1].status = "completed" => getNextAvailableTask(a) = {tasks[2]}

\* bob claimed and completed T1 and is_my_turn then offered him T2
C10_Witness ==
    /\ EndToEndQueue
    /\ tasks[1].status = "completed" /\ tasks[1].assignedTo = AgentId(2)
    /\ tasks[1].startedAt # NullTime
    /\ result.op = "is_my_turn" /\ result.out = "answered"
    /\ result.agentId = AgentId(2) /\ result.taskId = tasks[2].id

\* --------------------------------------------------- task lifecycle claims
\* C11: once a task's completedAt is stamped, no later update of the task changes
\* it (it is stamped once, the first time the task becomes completed, failed or
\* cancelled).
C11_CompletedAtStampedOnce ==
    [][\A i \in 1..Len(tasks) :
          tasks[i].completedAt # NullTime
          => tasks'[i].completedAt = tasks[i].completedAt]_vars

\* C12: once a task's startedAt is set, no later update or claim changes it,
\* claims that interleave between their read and their write included.
C12_StartedAtSetOnce ==
    [][\A i \in 1..Len(tasks) :
          tasks[i].startedAt # NullTime
          => tasks'[i].startedAt = tasks[i].startedAt]_vars

\* the status changes of the task state machine
StateMachine ==
    {<<"pending", "assigned">>, <<"pending", "in_progress">>,
     <<"assigned", "in_progress">>, <<"in_progress", "completed">>,
     <<"in_progress", "failed">>, <<"in_progress", "cancelled">>}

\* C13: every change of a task's status is a step of the state machine
\* pending -> assigned -> in_progress -> {completed, failed, cancelled} or
\* pending -> in_progress; so a completed, failed or cancelled task keeps its
\* status.
C13_StatusStateMachine ==
    [][\A i \in 1..Len(tasks) :
          tasks'[i].status # tasks[i].status
          => <<tasks[i].status, tasks'[i].status>> \in StateMachine]_vars

\* process p's task_claim succeeds in this step: its UPDATE is written
ClaimSucceeds(p) ==
    /\ pc[p].op = "task_claim" /\ pc[p].step = "write"
    /\ pc'[p] = Idle
    /\ result'.op = "task_claim" /\ result'.out = "updated"

\* C14: while a task is in_progress and assigned to an agent, no claim of it by
\* another agent succeeds.
C14_OneActiveClaimant ==
    [][\A p \in Procs :
          ClaimSucceeds(p)
          => LET task == getTask(pc[p].taskId)
             IN  ~(/\ task.status = "in_progress"
                   /\ task.assignedTo # NULL
                   /\ task.assignedTo # pc[p].agentId)]_vars

\* ----------------------------------------------------- memory store claims
\* C15: a set on a (namespace, key) that already has an entry replaces the
\* entry's value, ttlSeconds and expiresAt with those of this call (no ttl: no
\* expiry; ttl t > 0: expiry t seconds from now) and touches no other entry; and
\* there is never more than one entry per (namespace, key).
C15_SetReplaces ==
    /\ [](\A e \in memory : \A f \in memory :
             (e.namespace = f.namespace /\ e.key = f.key) => e = f)
    /\ [][\A p \in Procs, w \in Writes :
             (/\ memoryRow(memory, w[1], w[3]) # NoRow
              /\ SetMemory(p, w[1], w[2], w[3], w[4]))
             => LET old == memoryRow(memory, w[1], w[3])
                    new == memoryRow(memory', w[1], w[3])
                IN  /\ new # NoRow
                    /\ new.value = w[2]
                    /\ new.ttlSeconds = w[4]
                    /\ w[4] = NullTtl => new.expiresAt = NullTime
                    /\ w[4] > 0 => new.expiresAt = now + w[4]
                    /\ memory' \ {new} = memory \ {old}]_vars

\* an entry written earlier with an expiry was set again without a ttl and has
\* no expiry now, while the other key keeps its own expiry
C15_Witness ==
    /\ result.op = "memory_set" /\ result.out = "set"
    /\ result.ttlSeconds = NullTtl
    /\ LET e == memoryRow(memory, result.key, result.namespace)
       IN  /\ e # NoRow
           /\ e.createdAt < e.updatedAt /\ e.updatedAt = result.at
           /\ e.value = result.value /\ e.expiresAt = NullTime
    /\ \E f \in memory : f.key # result.key /\ f.expiresAt # NullTime

\* the ttl of entry e, given at its last write, has run out at time t
TtlElapsed(e, t) == e.ttlSeconds # NullTtl /\ t > e.updatedAt + e.ttlSeconds

\* C16: get and list return an entry written with ttlSeconds = t, whatever t was
\* given, until t seconds have passed since the write and not afterwards, and
\* never return an entry whose expiresAt is in the past.
C16_TtlExpiry ==
    [][\A p \in Procs, ns \in Namespaces :
          /\ \A k \in Keys :
                GetMemory(p, k, ns)
                => LET e == memoryRow(memory, k, ns)
                   IN  /\ e # NoRow /\ e.ttlSeconds # NullTtl
                          => (result'.found <=> ~TtlElapsed(e, now))
                       /\ \A r \in SeqToSet(result'.entries) :
                             r.expiresAt = NullTime \/ r.expiresAt >= now
          /\ ListMemory(p, ns)
             => /\ \A e \in memory :
                      (e.namespace = ns /\ e.ttlSeconds # NullTtl)
                      => (e \in SeqToSet(result'.entries) <=> ~TtlElapsed(e, now))
                /\ \A r \in SeqToSet(result'.entries) :
                      r.expiresAt = NullTime \/ r.expiresAt >= now]_vars

\* ------------------------------------------------------ unregistration claims
\* C17: unregister releases first and unconditionally: its release statement
\* removes every lock held by the agent, however many, so that each of those
\* resources is reported unlocked by a check; the delete statement that follows
\* leaves the locks alone whether or not it deletes the agent row; and a lock
\* only ever appears through the insert of a lock_acquire.
C17_UnregisterReleasesLocks ==
    [][/\ \A p \in Procs :
            (AgentUnregisterRelease(p) /\ currentAgentId[p] # NULL)
            => LET held == {l \in locks : l.heldBy = currentAgentId[p]}
               IN  /\ \A l \in locks' : l.heldBy # currentAgentId[p]
                   /\ locks' = locks \ held
                   /\ pc'[p].released = Cardinality(held)
                   /\ \A l \in held :
                        lockRow(cleanupExpiredLocks(locks', now'), l.resource) = NoRow
       /\ \A p \in Procs : AgentUnregisterDelete(p) => locks' = locks
       /\ (locks' \ locks # {}) => \E p \in Procs : LockAcquireInsert(p)]_vars

\* alice held both resources and is still referenced by her task: both locks
\* were released although the agent row was not deleted
C17_Witness ==
    /\ result.op = "agent_unregister"
    /\ result.out = "error_foreign_key"
    /\ result.released = Cardinality(Resources)
    /\ result.id \in AgentIds
    /\ \A l \in locks : l.heldBy # result.id
    /\ \A r \in Resources : lockRow(cleanupExpiredLocks(locks, now), r) = NoRow

\* C18: the delete statement of unregister, run for an agent that exists, always
\* deletes the agent's row and reports success, whatever tasks or memory entries
\* still reference the agent; a heartbeat for an agent without a row afterwards
\* reports that nothing was updated.
C18_UnregisterAlwaysDeletes ==
    [][\A p \in Procs :
         /\ (AgentUnregisterDelete(p) /\ pc[p].id \in AgentIds)
            => /\ result'.out = "unregistered"
               /\ pc[p].id \notin AgentIds'
         /\ (AgentHeartbeat(p, NULL) /\ currentAgentId[p] # NULL
                                     /\ currentAgentId[p] \notin AgentIds)
            => result'.out = "not_found"]_vars

\* C19: in every reachable state every lock is held by an agent that has a row in
\* the registry, also when a process sharing the agent's identity acquires a
\* lock between the release and the delete statement of unregister.
C19_NoOrphanedLocks == \A l \in locks : l.heldBy \in AgentIds

\* an unregister whose delete failed only because a lock of the agent was
\* inserted after its release statement: no task or memory entry references it
C19_Witness ==
    /\ result.op = "agent_unregister"
    /\ result.out = "error_foreign_key"
    /\ \E l \in locks : l.heldBy = result.id
    /\ ~AgentReferencedNoLocks(result.id)
    /\ result.id \in AgentIds

\* ------------------------------------------------------ staleness sweep claims
\* seconds since the agent's last heartbeat at time t
HeartbeatAge(a, t) == t - a.lastHeartbeat

\* C20: a staleness sweep selects exactly the agents that are not offline and
\* whose last heartbeat is more than 300 seconds old, removes every lock of each
\* selected agent and no other lock, and flags offline exactly the agents that
\* are not offline and more than 300 seconds old at the sweep's time; every other
\* agent keeps its status and its locks.
C20_StalenessSweep ==
    [][\A p \in Procs :
         /\ AgentListSweep(p, NULL, NULL)
            => /\ pc'[p].stale = {agents[i].id : i \in {j \in 1..Len(agents) :
                                    /\ agents[j].status # "offline"
                                    /\ HeartbeatAge(agents[j], now) > 300}}
               /\ pc'[p].cutoff + 300 = now
         /\ AgentListRelease(p)
            => \E id \in pc[p].stale :
                 /\ locks' = {l \in locks : l.heldBy # id}
                 /\ pc'[p].stale = pc[p].stale \ {id}
         /\ AgentListUpdate(p)
            => /\ Len(agents') = Len(agents)
               /\ \A i \in 1..Len(agents) :
                    agents'[i] =
                      IF /\ agents[i].status # "offline"
                         /\ HeartbeatAge(agents[i], pc[p].cutoff + 300) > 300
                      THEN [agents[i] EXCEPT !.status = "offline"]
                      ELSE agents[i]]_vars

\* a sweep has flagged one agent and removed its lock, while an agent whose
\* heartbeat was exactly 300 seconds old kept its status and its lock
C20_Witness ==
    \E p \in Procs :
      /\ pc[p].op = "agent_list" /\ pc[p].step = "list"
      /\ pc[p].changes = 1 /\ pc[p].released = 1
      /\ \E i, j \in 1..Len(agents) :
           /\ agents[i].status = "offline" /\ agents[i].lastHeartbeat < pc[p].cutoff
           /\ \A l \in locks : l.heldBy # agents[i].id
           /\ agents[j].status # "offline"
           /\ HeartbeatAge(agents[j], pc[p].cutoff + 300) = 300
           /\ \E l \in locks : l.heldBy = agents[j].id

\* ---------------------------------------------------------- heartbeat claims
\* C21: a heartbeat of a session whose agent has a row sets that row's
\* lastHeartbeat to now, sets its status only when a status is given, leaves every
\* other field and every other row alone and reports success; for an agent id
\* without a row it reports failure and changes no agent.
C21_Heartbeat ==
    [][\A p \in Procs, st \in BeatStatuses :
         (AgentHeartbeat(p, st) /\ currentAgentId[p] # NULL)
         => IF currentAgentId[p] \in AgentIds
            THEN /\ result'.out = "recorded"
                 /\ Len(agents') = Len(agents)
                 /\ \A i \in 1..Len(agents) :
                      IF agents[i].id = currentAgentId[p]
                      THEN /\ agents'[i].lastHeartbeat = now
                           /\ agents'[i].status = IF st = NULL THEN agents[i].status ELSE st
                           /\ [agents'[i] EXCEPT !.lastHeartbeat = 0, !.status = ""]
                                = [agents[i] EXCEPT !.lastHeartbeat = 0, !.status = ""]
                      ELSE agents'[i] = agents[i]
            ELSE /\ result'.out = "not_found"
                 /\ agents' = agents]_vars

\* a heartbeat without status has just refreshed a busy agent, which stays busy
C21_Witness ==
    /\ result.op = "agent_heartbeat"
    /\ result.out = "recorded"
    /\ result.status = NULL
    /\ now > 0
    /\ \E i \in 1..Len(agents) :
         /\ agents[i].id = result.id
         /\ agents[i].status = "busy"
         /\ agents[i].lastHeartbeat = now
         /\ agents[i].registeredAt < now

\* ---------------------------------------------------------- audit log claims
\* C22: the event log is append-only: every step leaves the recorded events as
\* they were or appends to them; no event is modified or removed.
C22_AppendOnly ==
    [][/\ Len(events') >= Len(events)
       /\ \A i \in 1..Len(events) : events'[i] = events[i]]_vars

\* more events have been appended to the two registrations, which are still the
\* first two rows: bob took and released the lock and created the task
C22_Witness ==
    /\ Len(events) = MaxEvents
    /\ events[1] = createEvent("agent_registered", AgentId(1), AgentId(1), 0)
    /\ events[2] = createEvent("agent_registered", AgentId(2), AgentId(2), 0)
    /\ events[3] = createEvent("lock_acquired", AgentId(2), "r1", 0)
    /\ events[4] = createEvent("lock_released", AgentId(2), "r1", 0)
    /\ events[5].eventType = "task_created"

\* --------------------------------------------------- missing identity claims
\* C23: heartbeat, unregister, task claim, is_my_turn, lock acquire and lock
\* release, called by a session without a current agent, answer that the session
\* is not registered and leave agents, tasks, locks, memory and events as they
\* were; a successful unregister leaves the session without a current agent.
C23_NotRegistered ==
    [][\A p \in Procs :
         /\ (/\ currentAgentId[p] = NULL
             /\ \/ AgentHeartbeat(p, NULL)
                \/ AgentUnregisterRelease(p)
                \/ \E id \in {TaskId(1), NULL} : TaskClaimSelect(p, id)
                \/ IsMyTurn(p)
                \/ LockAcquireCheck(p, "r1", DefaultLockTimeout)
                \/ LockRelease(p, "r1"))
            => /\ result'.proc = p
               /\ result'.out = "not_registered"
               /\ pc'[p] = Idle
               /\ UNCHANGED <<agents, tasks, locks, memory, events>>
         /\ (AgentUnregisterDelete(p) /\ result'.out = "unregistered")
            => currentAgentId'[p] = NULL]_vars

\* a session that has unregistered was refused the release of a lock that the
\* other agent holds, while the log has room for more events
C23_Witness ==
    /\ result.op = "lock_release"
    /\ result.out = "not_registered"
    /\ currentAgentId[result.proc] = NULL
    /\ locks # {}
    /\ Len(events) < MaxEvents
    /\ \E i \in 1..Len(events) : events[i].eventType = "agent_unregistered"

\* ------------------------------------------------------ task metadata claims
\* C24: an update with metadata m merges m into the metadata of the row it has
\* read: every key of m takes m's value, every other key of the row keeps its
\* value and no key is lost; the UPDATE writes that merged value, and an update
\* without metadata leaves the metadata as it is.
C24_MetadataMerged ==
    [][\A p \in Procs :
         /\ \A st \in {NULL, "in_progress"}, m \in MetaUpdates \ {NoMetadata} :
              TaskUpdateRead(p, TaskId(1), st, m, NULL)
              => LET old == getTask(TaskId(1)).metadata
                     new == pc'[p].set.metadata
                 IN  /\ DOMAIN new = DOMAIN old \cup DOMAIN m
                     /\ \A k \in DOMAIN m : new[k] = m[k]
                     /\ \A k \in DOMAIN old \ DOMAIN m : new[k] = old[k]
         /\ (UpdateTaskWrite(p) /\ result'.out = "updated")
            => \A i \in 1..Len(tasks) :
                 tasks'[i].metadata =
                   IF tasks[i].id # pc[p].taskId \/ pc[p].set.metadata = NoMetadata
                   THEN tasks[i].metadata
                   ELSE pc[p].set.metadata]_vars

\* an update of progress has overwritten that key and kept the key stage
C24_Witness ==
    /\ result.op = "task_update"
    /\ result.out = "updated"
    /\ getTask(TaskId(1)).metadata = [progress |-> 2, stage |-> 1]
    /\ getTask(TaskId(1)).updatedAt > 0

\* ---------------------------------------------------------- dependency claims
\* C25: for every task of every table, the dependency check is true exactly when
\* the task has no dependency or each of its dependency ids names a task that
\* exists and is completed; task_claim goes on to its update exactly in that case
\* and is refused otherwise.
C25_DependenciesMetExactly ==
    /\ [](\A i \in 1..Len(tasks) :
            checkDependenciesMet(tasks[i].id)
            <=> \/ Len(tasks[i].dependencies) = 0
                \/ \A k \in 1..Len(tasks[i].dependencies) :
                      \E j \in 1..Len(tasks) :
                         /\ tasks[j].id = tasks[i].dependencies[k]
                         /\ tasks[j].status = "completed")
    /\ [][\A p \in Procs :
            TaskClaimCheck(p)
            => (pc'[p].op = "task_claim"
                <=> DependenciesCompleted(getTask(pc[p].taskId)))]_vars

\* a claim was refused because the dependency, although it exists and has ended,
\* is failed or cancelled
C25_Witness ==
    /\ result.op = "task_claim" /\ result.out = "dependencies_not_met"
    /\ LET task == getTask(result.taskId)
       IN  /\ Len(task.dependencies) = 1
           /\ getTask(task.dependencies[1]) # NoRow
           /\ getTask(task.dependencies[1]).status \in {"failed", "cancelled"}

\* ------------------------------------------------------------ listing claims
\* C26: no listing reports or counts as active an agent whose last heartbeat is
\* more than 300 seconds old: the agent list shows no such agent with a status
\* other than offline, and the coordination status counts as active only agents
\* whose heartbeat is at most 300 seconds old.
C26_ListingsSweepFirst ==
    [][\A p \in Procs :
         /\ AgentListRead(p)
            => \A a \in result'.agents :
                 a.status # "offline" => HeartbeatAge(a, now) <= 300
         /\ CoordinationStatus(p)
            => result'.active =
                 Cardinality({i \in 1..Len(agents) :
                                /\ agents[i].status \in {"active", "busy"}
                                /\ HeartbeatAge(agents[i], now) <= 300})]_vars

\* --------------------------------------------------------- atomicity claims
\* C27: updates of one task by two processes behave as if each ran alone: a
\* merge never removes a key, so no step takes a metadata key away from a task,
\* and after two interleaved updates of different keys the row holds both keys.
C27_UpdatesAtomic ==
    [][\A i \in 1..Len(tasks) :
         DOMAIN tasks[i].metadata \subseteq DOMAIN tasks'[i].metadata]_vars

\* --------------------------------------------------------- task event claims
\* C28: an update that sets a status writes that status to the task and appends
\* exactly one event, for that task, whose type is task_assigned for assigned,
\* task_claimed for in_progress, task_completed for completed and task_updated
\* for pending, failed and cancelled; an update of a task id that does not exist
\* reports that the task was not found, appends no event and changes no table.
C28_StatusEvents ==
    [][\A p \in Procs :
         /\ (/\ UpdateTaskWrite(p)
             /\ result'.out = "updated"
             /\ pc[p].set.status # NULL
             /\ Len(events) < MaxEvents)
            => LET to == pc[p].set.status
               IN  /\ \A i \in 1..Len(tasks) :
                        tasks'[i].status = IF tasks[i].id = pc[p].taskId
                                           THEN to ELSE tasks[i].status
                   /\ Len(events') = Len(events) + 1
                   /\ SubSeq(events', 1, Len(events)) = events
                   /\ events'[Len(events')].resourceId = pc[p].taskId
                   /\ events'[Len(events')].eventType =
                        IF to = "assigned" THEN "task_assigned"
                        ELSE IF to = "in_progress" THEN "task_claimed"
                        ELSE IF to = "completed" THEN "task_completed"
                        ELSE "task_updated"
         /\ \A st \in UpdateStatuses :
              TaskUpdateRead(p, MissingTaskId, st, NoMetadata, NULL)
              => /\ result'.out = "not_found"
                 /\ pc'[p] = Idle
                 /\ UNCHANGED <<tasks, events, agents, locks, memory>>]_vars

\* the task was assigned and then completed, each update leaving its event
C28_Witness ==
    /\ result.op = "task_update"
    /\ result.out = "updated"
    /\ Len(events) = 5
    /\ events[3].eventType = "task_created"
    /\ events[4].eventType = "task_assigned"
    /\ events[5].eventType = "task_completed"
    /\ getTask(TaskId(1)).status = "completed"

\* ------------------------------------------------------------- audit claims
\* C29: every step that changes the agents, the locks, the tasks or the shared
\* memory appends at least one event to the log.
C29_MutationsLogged ==
    [][(/\ <<agents, locks, tasks, memory>>' # <<agents, locks, tasks, memory>>
        /\ Len(events) < MaxEvents)
       => Len(events') > Len(events)]_vars

\* ------------------------------------------------------- lock expiry claims
\* C30: a lock acquired with timeoutSeconds t, 0 included, is stored with
\* acquiredAt the time of the insert and expiresAt = acquiredAt + t.
C30_ExpiryIsAcquiredPlusTimeout ==
    [][\A p \in Procs :
         (LockAcquireInsert(p) /\ result'.out = "acquired")
         => \E l \in locks' :
              /\ l.resource = pc[p].resource
              /\ l.heldBy = pc[p].agentId
              /\ l.acquiredAt = now
              /\ l.expiresAt = l.acquiredAt + pc[p].timeoutSeconds]_vars

\* ------------------------------------------------- dependency safety claims
\* C31: a task enters the status in_progress only in a state in which each of
\* its dependencies names a completed task, whichever handler writes the status.
C31_InProgressNeedsDependencies ==
    [][\A i \in 1..Len(tasks) :
         (tasks[i].status # "in_progress" /\ tasks'[i].status = "in_progress")
         => checkDependenciesMet(tasks[i].id)]_vars

\* C32: the next available task of an agent is never a task assigned to another
\* agent: neither is_my_turn nor a task_claim without a task id selects, for the
\* agent A, a task whose assignedTo is an agent other than A.
C32_NextAvailableNotOthers ==
    [][\A p \in Procs :
         /\ (IsMyTurn(p) /\ result'.out = "answered" /\ result'.taskId # NULL)
            => getTask(result'.taskId).assignedTo \in {NULL, currentAgentId[p]}
         /\ (TaskClaimSelect(p, NULL) /\ pc'[p] # Idle)
            => getTask(pc'[p].taskId).assignedTo \in {NULL, currentAgentId[p]}]_vars

\* --------------------------------------------------- staleness sweep claims
\* a lock is held by an agent whose status is offline
OfflineHolder(agentTbl, lockTbl) ==
    \E l \in lockTbl : \E i \in 1..Len(agentTbl) :
        agentTbl[i].id = l.heldBy /\ agentTbl[i].status = "offline"

\* C33: in the state a staleness sweep leaves, whether it ended with its UPDATE
\* or returned at once because it selected no agent, no lock is held by an agent
\* whose status is offline.
C33_NoOfflineHolderAfterSweep ==
    [][\A p \in Procs :
         /\ AgentListUpdate(p) => ~OfflineHolder(agents', locks')
         /\ (AgentListSweep(p, NULL, NULL) /\ pc'[p].step = "list")
            => ~OfflineHolder(agents', locks')]_vars

\* C34: a sweep removes the locks of an agent only if its UPDATE flags that agent
\* offline: whenever the sweep's loop removes a lock, the holder is at that
\* moment still an agent the UPDATE will select, not offline and with a last
\* heartbeat before the sweep's cutoff.
C34_SweepReleasesOnlyFlagged ==
    [][\A p \in Procs :
         AgentListRelease(p)
         => \A l \in locks \ locks' :
              \E i \in 1..Len(agents) :
                 agents[i].id = l.heldBy /\ StaleAgent(agents[i], pc[p].cutoff)]_vars

\* C35: a heartbeat without a status sets the agent's lastHeartbeat and changes
\* no agent's status, so an offline agent stays offline through it; the status
\* of an agent leaves offline only in a heartbeat of that agent that carries a
\* status or in the reconnect of a registration under its name.
C35_OfflineSticky ==
    [][/\ \A p \in Procs :
            (AgentHeartbeat(p, NULL) /\ result'.out = "recorded")
            => \A i \in 1..Len(agents) :
                 /\ agents'[i].status = agents[i].status
                 /\ agents[i].id = currentAgentId[p] => agents'[i].lastHeartbeat = now
       /\ \A i \in 1..Len(agents) :
            (agents[i].status = "offline" /\ agents'[i].status # "offline")
            => \E p \in Procs :
                 \/ /\ currentAgentId[p] = agents[i].id
                    /\ \E st \in BeatStatuses \ {NULL} : AgentHeartbeat(p, st)
                 \/ /\ AgentRegisterHeartbeat(p)
                    /\ pc[p].name = agents[i].name]_vars

\* alice was flagged offline, has sent a heartbeat without a status after the
\* sweep, and is still offline
C35_Witness ==
    /\ result.op = "agent_heartbeat"
    /\ result.out = "recorded"
    /\ result.status = NULL
    /\ getAgent(result.id).status = "offline"
    /\ getAgent(result.id).lastHeartbeat = now
    /\ now > HEARTBEAT_TTL_SECONDS

C37_TimestampsNeverNulled ==
    [][\A i \in 1..Len(tasks) :
         /\ tasks[i].startedAt # NullTime => tasks'[i].startedAt # NullTime
         /\ tasks[i].completedAt # NullTime => tasks'[i].completedAt # NullTime
         /\ (tasks[i].status \in TerminalStatuses
             /\ tasks'[i].status \notin TerminalStatuses)
            => tasks'[i].completedAt = tasks[i].completedAt]_vars

\* a completed task was moved back to pending and still has its completedAt
C37_Witness ==
    /\ result.op = "task_update"
    /\ result.out = "updated"
    /\ getTask(TaskId(1)).status = "pending"
    /\ getTask(TaskId(1)).completedAt # NullTime
    /\ getTask(TaskId(1)).updatedAt > getTask(TaskId(1)).completedAt

\* ------------------------------------------------- coordination status claims
\* C38: the number of locks the coordination status reports is the number of
\* locks that have not expired at that moment, which is the number of resources
\* for which a check would report a holder.
C38_StatusCountsLiveLocks ==
    [][\A p \in Procs :
         CoordinationStatus(p)
         => result'.locks = Cardinality({l \in locks : ~Expired(l, now)})]_vars

====
